---- MODULE Spec2Model ----
(***************************************************************************)
(* Order processing core of mealchoice-server: the order controller        *)
(* (createOrder, updateOrderStatus, verifyPayment, archiveOrder,           *)
(* bulkArchiveOrders, cancelOrderByCustomer, hideOrderForBuyer,            *)
(* bulkHideOrdersForBuyer), the product controller's updateProduct and     *)
(* deleteProduct, and the Order / Product schemas they persist through.    *)
(*                                                                         *)
(* Every handler is an async function: it runs from one database call      *)
(* (await) to the next without interruption, and other requests may run    *)
(* between two of its database calls.  A handler is therefore a sequence   *)
(* of steps, one per database call together with the synchronous code      *)
(* that follows it.  Spec runs the requests one at a time (each handler    *)
(* runs to its response before the next request starts); SpecConc lets     *)
(* two requests interleave at their database calls.                        *)
(***************************************************************************)
EXTENDS Integers, Sequences, FiniteSets, TLC

VARIABLES
  products,   \* the Product collection: product id -> document
  orders,     \* the Order collection, in creation order: order id -> document
  pc,         \* per request slot: where its handler stands
  req,        \* per request slot: the request (handler, principal, body)
  loc,        \* per request slot: the handler's local variables
  resp,       \* per request slot: the HTTP status answered, 0 before
  pre,        \* per request slot: the collections as they were when it arrived
  served,     \* the number of requests accepted so far
  users,      \* the User collection: the ids of the accounts that exist
  files,      \* per request slot: its uploaded files that are on disk
  sent        \* per request slot: the notifications its handler has delivered

vars == <<products, orders, pc, req, loc, resp, pre, served, users, files, sent>>

(***************************************************************************)
(* Bounds of the model.                                                    *)
(***************************************************************************)
MaxQty == 2            \* the stock a product is created with
MaxCart == 2           \* lines of a cart at most
MaxRequests == 3       \* requests served one after the other (Spec)
MaxCancelRequests == 4 \* requests served one after the other (SpecCancel)
MaxConcRequests == 3   \* requests served with interleaving (SpecConc)
MaxBulk == 2           \* order ids of a bulk request at most
MaxHideBulk == 3       \* order ids in one bulkHide request
MaxAdminRequests == 2  \* requests served one after the other (SpecAdmin)

(***************************************************************************)
(* Principals and catalogue.                                               *)
(***************************************************************************)
Sellers == {"s1", "s2"}
Buyers == {"b1", "b2"}
ProductIds == {"pA", "pB", "pC"}
Procs == {1, 2}

\* Order.js: the status enumeration of the schema.
StatusEnum == {"pending", "confirmed", "preparing", "ready", "completed", "cancelled"}

validStatusesOfSchema ==
  {"pending", "confirmed", "preparing", "ready", "completed", "cancelled"}

validStatusesWithConfirmed ==
  {"pending", "confirmed", "preparing", "completed", "cancelled"}

\* updateOrderStatus: the statuses the handler accepts.
validStatuses == {"pending", "preparing", "completed", "cancelled"}

\* Order.js: paymentMethod enum.
PaymentEnum == {"qr", "cod"}

\* Order.js: notes maxlength.
NotesMaxLength == 500

\* Order.js: orderItemSchema.quantity min.
ItemQuantityMin == 1

\* Product schema: lowStockThreshold, default 10.
LowStockThresholdDefault == 10

(***************************************************************************)
(* Documents.                                                              *)
(***************************************************************************)
\* The catalogue: pA and pC are sold by s1, pB by s2.
SellerOf(id) == IF id = "pB" THEN "s2" ELSE "s1"

PriceOf(id) == IF id = "pA" THEN 2 ELSE IF id = "pB" THEN 3 ELSE 5

\* lowStockThreshold of each product: pA warns at its last unit, the others
\* keep the schema's default.
ThresholdOf(id) == IF id = "pA" THEN 1 ELSE LowStockThresholdDefault

InitProducts ==
  [id \in ProductIds |->
     [exists |-> TRUE,
      seller |-> SellerOf(id),
      price |-> PriceOf(id),
      quantity |-> MaxQty,
      isAvailable |-> TRUE]]

\* A product that was deleted: findById returns null.
NoProduct ==
  [exists |-> FALSE, seller |-> "", price |-> 0, quantity |-> 0, isAvailable |-> FALSE]

NoOrder ==
  [buyer |-> "", seller |-> "", items |-> <<>>, total |-> 0, status |-> "",
   statusHistory |-> <<>>, isPaymentVerified |-> FALSE, isArchived |-> FALSE,
   isHiddenByBuyer |-> FALSE, paymentMethod |-> "", createdAt |-> 0]

\* paymentMethods of a request that names no method for any seller.
NoPay == [s \in Sellers |-> ""]

\* A date the query string does not carry.
NoDate == -1

NoReq ==
  [op |-> "", user |-> "", cart |-> <<>>, pay |-> NoPay, noteLen |-> 0, oid |-> 0,
   status |-> "", note |-> "", archive |-> FALSE, oids |-> <<>>, pid |-> "",
   fields |-> {}, quantity |-> 0, price |-> 0, isAvailable |-> FALSE,
   files |-> {}, target |-> "", faults |-> {}, archived |-> "",
   period |-> "", startDate |-> NoDate, endDate |-> NoDate, now |-> 0]

\* const counts = { pending: 0, ..., cancelled: 0, archived: archivedCount }
NoCounts == [s \in StatusEnum \cup {"archived"} |-> 0]

\* The body of a listing: orders (their ids, in the order listed), count and
\* statusCounts.
NoView == [orders |-> <<>>, count |-> 0, statusCounts |-> NoCounts]

\* analytics.summary (revenueChange in tenths of a percent) and
\* analytics.salesOverTime.
NoReport ==
  [totalRevenue |-> 0, totalOrders |-> 0, completedOrders |-> 0,
   revenueChange |-> 0, salesOverTime |-> <<>>]

NoLoc ==
  [i |-> 0, rdoc |-> NoProduct, doc |-> NoProduct, buckets |-> <<>>,
   created |-> <<>>, odoc |-> NoOrder, count |-> 0, found |-> <<>>,
   docs |-> <<>>, view |-> NoView, report |-> NoReport]

NoPre == [products |-> InitProducts, orders |-> <<>>]

(***************************************************************************)
(* Pure helpers.                                                           *)
(***************************************************************************)
RECURSIVE SumLines(_)
\* Sum of price x quantity over a sequence of line snapshots.
SumLines(items) ==
  IF items = <<>> THEN 0
  ELSE Head(items).price * Head(items).quantity + SumLines(Tail(items))

RECURSIVE SumQty(_, _)
\* Total quantity the lines of `items` hold of product `id`.
SumQty(items, id) ==
  IF items = <<>> THEN 0
  ELSE (IF Head(items).product = id THEN Head(items).quantity ELSE 0)
         + SumQty(Tail(items), id)

\* Index of the bucket of `seller` in ordersBySeller, 0 when there is none.
BucketOf(buckets, seller) ==
  IF \E k \in 1..Len(buckets) : buckets[k].seller = seller
  THEN CHOOSE k \in 1..Len(buckets) : buckets[k].seller = seller
  ELSE 0

AddLinePerLine(buckets, seller, line) ==
  Append(buckets, [seller |-> seller, items |-> <<line>>,
                   total |-> line.price * line.quantity])

\* createOrder: ordersBySeller[sellerId] is created on first use, then the
\* line snapshot is pushed and the running total advanced.
AddLine(buckets, seller, line) ==
  LET k == BucketOf(buckets, seller)
      b0 == IF k = 0 THEN [seller |-> seller, items |-> <<>>, total |-> 0]
            ELSE buckets[k]
      b1 == [b0 EXCEPT !.items = Append(@, line),
                       !.total = @ + line.price * line.quantity]
  IN IF k = 0 THEN Append(buckets, b1) ELSE [buckets EXCEPT ![k] = b1]

\* Order schema validation run by Order.create.
OrderValid(o, noteLen) ==
  /\ \A k \in 1..Len(o.items) : o.items[k].quantity >= ItemQuantityMin
  /\ o.total >= 0
  /\ o.paymentMethod \in PaymentEnum
  /\ noteLen <= NotesMaxLength

\* Product schema validation run by product.save(): quantity min 0, price min 0.
ProductValid(d) == d.quantity >= 0 /\ d.price >= 0

NewOrderWithoutHook(buyer, bucket, pay) ==
  [buyer |-> buyer,
   seller |-> bucket.seller,
   items |-> bucket.items,
   total |-> bucket.total,
   status |-> "pending",
   statusHistory |-> <<>>,
   isPaymentVerified |-> FALSE,
   isArchived |-> FALSE,
   isHiddenByBuyer |-> FALSE,
   paymentMethod |-> IF pay = "" THEN "qr" ELSE pay,
   createdAt |-> 0]

\* The document Order.create persists for one seller bucket: schema defaults,
\* and the pre-save hook seeding the history.  createdAt (timestamps: true)
\* is stamped by the caller with the time of the request.
NewOrder(buyer, bucket, pay) ==
  [buyer |-> buyer,
   seller |-> bucket.seller,
   items |-> bucket.items,
   total |-> bucket.total,
   status |-> "pending",
   statusHistory |-> <<[status |-> "pending", note |-> "Order placed"]>>,
   isPaymentVerified |-> FALSE,
   isArchived |-> FALSE,
   isHiddenByBuyer |-> FALSE,
   paymentMethod |-> IF pay = "" THEN "qr" ELSE pay,
   createdAt |-> 0]

(***************************************************************************)
(* Request bookkeeping.                                                    *)
(***************************************************************************)
\* The request reaches its handler.
Arrive(p, r) ==
  /\ pc[p] = "idle"
  /\ req' = [req EXCEPT ![p] = r]
  /\ pre' = [pre EXCEPT ![p] = [products |-> products, orders |-> orders]]
  /\ served' = served + 1
  /\ UNCHANGED <<users, sent>>

\* A request of a route that takes no upload.
Begin(p, r) ==
  /\ Arrive(p, r)
  /\ UNCHANGED files

\* The handler sends its response: res.status(code).json(...)
Respond(p, code) ==
  /\ pc' = [pc EXCEPT ![p] = "done"]
  /\ resp' = [resp EXCEPT ![p] = code]

Goto(p, label) ==
  /\ pc' = [pc EXCEPT ![p] = label]
  /\ UNCHANGED resp

\* The connection is closed; the slot takes the next request.
Finish(p) ==
  /\ pc[p] = "done"
  /\ pc' = [pc EXCEPT ![p] = "idle"]
  /\ req' = [req EXCEPT ![p] = NoReq]
  /\ loc' = [loc EXCEPT ![p] = NoLoc]
  /\ resp' = [resp EXCEPT ![p] = 0]
  /\ pre' = [pre EXCEPT ![p] = NoPre]
  /\ files' = [files EXCEPT ![p] = {}]
  /\ sent' = [sent EXCEPT ![p] = {}]
  /\ UNCHANGED <<products, orders, served, users>>

(***************************************************************************)
(* createOrder (POST /api/orders, customers only).                         *)
(***************************************************************************)
\* Guard of the bounds: the lines of negative quantity cannot raise a product
\* above MaxQty.
RECURSIVE NegQty(_, _)
NegQty(cart, id) ==
  IF cart = <<>> THEN 0
  ELSE (IF Head(cart).productId = id /\ Head(cart).quantity < 0
        THEN 0 - Head(cart).quantity ELSE 0) + NegQty(Tail(cart), id)

CartFits(cart) ==
  \A id \in ProductIds : products[id].quantity + NegQty(cart, id) <= MaxQty

AcceptEmptyCart(p) ==
  /\ Respond(p, 201)
  /\ files' = [files EXCEPT ![p] = {}]
  /\ UNCHANGED loc

\* if (!items || items.length === 0): the uploaded files are unlinked and the
\* response is 400 "Order must contain at least one item".
RejectEmptyCart(p) ==
  /\ Respond(p, 400)
  /\ files' = [files EXCEPT ![p] = {}]
  /\ UNCHANGED loc

\* The request arrives with a parsed items array, the upload middleware
\* having written req.files to disk.  An empty cart is answered 400 before
\* any product is read, after the uploaded files have been unlinked.
CreateOrderStart(p, user, cart, pay, noteLen, uploads, faults) ==
  /\ CartFits(cart)
  /\ Arrive(p, [NoReq EXCEPT !.op = "createOrder", !.user = user, !.cart = cart,
                             !.pay = pay, !.noteLen = noteLen, !.files = uploads,
                             !.faults = faults])
  /\ IF Len(cart) = 0
     THEN RejectEmptyCart(p)
     ELSE /\ Goto(p, "co_find")
          /\ files' = [files EXCEPT ![p] = uploads]
          /\ loc' = [loc EXCEPT ![p] = [NoLoc EXCEPT !.i = 1]]
  /\ UNCHANGED <<products, orders>>

\* The request arrives with no items at all (!items): the same return as for
\* an empty array.
CreateOrderMissingItems(p, user, uploads) ==
  /\ Arrive(p, [NoReq EXCEPT !.op = "createOrder", !.user = user,
                             !.note = "missing items", !.files = uploads])
  /\ RejectEmptyCart(p)
  /\ UNCHANGED <<products, orders>>

\* The request arrives with items a string that JSON.parse rejects: 400
\* "Invalid items format", returned at once.
CreateOrderBadItems(p, user, uploads) ==
  /\ Arrive(p, [NoReq EXCEPT !.op = "createOrder", !.user = user,
                             !.note = "invalid items", !.files = uploads])
  /\ Respond(p, 400)
  /\ files' = [files EXCEPT ![p] = uploads]
  /\ UNCHANGED <<products, orders, loc>>

\* The availability check of one cart line on the product document just read.
UnavailableByFlagOnly(product, quantity) == ~product.isAvailable

\* !product.isAvailable || product.quantity < item.quantity
Unavailable(product, quantity) ==
  ~product.isAvailable \/ product.quantity < quantity

\* Product.findById for line i, then the synchronous code up to product.save():
\* the NotFound and availability returns, the bucket's new line snapshot and
\* running total, and the decrement of the in-memory document.
CreateOrderFind(p) ==
  /\ pc[p] = "co_find"
  /\ LET item == req[p].cart[loc[p].i]
         product == products[item.productId]
     IN IF ~product.exists
        THEN /\ Respond(p, 404)
             /\ UNCHANGED loc
        ELSE IF Unavailable(product, item.quantity)
        THEN /\ Respond(p, 400)
             /\ UNCHANGED loc
        ELSE /\ Goto(p, "co_save")
             /\ loc' = [loc EXCEPT
                  ![p].buckets = AddLine(@, product.seller,
                                   [product |-> item.productId,
                                    price |-> product.price,
                                    quantity |-> item.quantity]),
                  ![p].rdoc = product,
                  ![p].doc = [product EXCEPT !.quantity = @ - item.quantity]]
  /\ UNCHANGED <<products, orders, req, pre, served, users, files, sent>>

\* What product.save() writes: $set of exactly the paths whose in-memory value
\* differs from the value that was read (the modified paths), on the stored
\* document as it is at the time of the write.
SaveProductKeepsQuantity(stored, rdoc, doc) ==
  [stored EXCEPT
     !.price = IF doc.price # rdoc.price THEN doc.price ELSE @,
     !.isAvailable = IF doc.isAvailable # rdoc.isAvailable THEN doc.isAvailable ELSE @]

SaveProductSellsOut(stored, rdoc, doc) ==
  [stored EXCEPT
     !.quantity = IF doc.quantity # rdoc.quantity THEN 0 ELSE @,
     !.price = IF doc.price # rdoc.price THEN doc.price ELSE @,
     !.isAvailable = IF doc.isAvailable # rdoc.isAvailable THEN doc.isAvailable ELSE @]

SaveProductInc(stored, rdoc, doc) ==
  [stored EXCEPT
     !.quantity = @ + (doc.quantity - rdoc.quantity),
     !.price = IF doc.price # rdoc.price THEN doc.price ELSE @,
     !.isAvailable = IF doc.isAvailable # rdoc.isAvailable THEN doc.isAvailable ELSE @]

SaveProduct(stored, rdoc, doc) ==
  [stored EXCEPT
     !.quantity = IF doc.quantity # rdoc.quantity THEN doc.quantity ELSE @,
     !.price = IF doc.price # rdoc.price THEN doc.price ELSE @,
     !.isAvailable = IF doc.isAvailable # rdoc.isAvailable THEN doc.isAvailable ELSE @]

\* product.save() throws: the schema validation of the document fails, or a
\* path is modified and the stored document no longer exists.
SaveProductThrowsIfStale(stored, rdoc, doc) ==
  \/ ~ProductValid(doc)
  \/ doc # rdoc /\ ~stored.exists
  \/ doc # rdoc /\ stored.quantity # rdoc.quantity

SaveProductThrows(stored, rdoc, doc) ==
  \/ ~ProductValid(doc)
  \/ doc # rdoc /\ ~stored.exists

\* product.quantity <= product.lowStockThreshold && product.quantity > 0, on
\* the document in memory after the decrement.
LowStockIncludingZero(doc, id) == doc.quantity <= ThresholdOf(id)

LowStock(doc, id) == doc.quantity <= ThresholdOf(id) /\ doc.quantity > 0

\* A notification delivered to a seller about a product or an order.
Notice(kind, seller, about) == [kind |-> kind, seller |-> seller, about |-> about]

\* The low-stock notices delivered once the socket event has been emitted:
\* the event, and the e-mail if the seller's account is found and the mailer
\* does not fail.
LowStockNotices(seller, id, faults) ==
  {Notice("low_stock", seller, id)}
    \cup (IF seller \in users /\ "low_stock_email" \notin faults
          THEN {Notice("low_stock_email", seller, id)} ELSE {})

\* The new-order notices delivered for an order just created: nothing if the
\* seller's account is not found or the socket event fails (the e-mail follows
\* it in the same try block), else the event, and the e-mail if the mailer
\* does not fail.
NewOrderNotices(seller, oid, faults) ==
  IF seller \notin users \/ "new_order" \in faults THEN {}
  ELSE {Notice("new_order", seller, oid)}
         \cup (IF "new_order_email" \notin faults
               THEN {Notice("new_order_email", seller, oid)} ELSE {})

\* await product.save() for line i: validation, then the write of the modified
\* quantity.  A failed validation or a document deleted meanwhile throws, and
\* the catch block answers 500.  Then the loop moves to the next line, or to
\* the creation of the orders.
\* Then the low-stock notification of the saved document: the socket event,
\* emitted outside any try block, so that its failure reaches the catch block
\* of the handler (500), and the e-mail, whose failure is logged and dropped.
CreateOrderSave(p) ==
  /\ pc[p] = "co_save"
  /\ LET id == req[p].cart[loc[p].i].productId
         doc == loc[p].doc
     IN IF SaveProductThrows(products[id], loc[p].rdoc, doc)
        THEN /\ Respond(p, 500)
             /\ files' = [files EXCEPT ![p] = {}]
             /\ UNCHANGED <<products, loc, sent>>
        ELSE /\ products' = [products EXCEPT
                                ![id] = SaveProduct(@, loc[p].rdoc, doc)]
             /\ IF LowStock(doc, id) /\ "low_stock" \in req[p].faults
                THEN /\ Respond(p, 500)
                     /\ files' = [files EXCEPT ![p] = {}]
                     /\ UNCHANGED <<loc, sent>>
                ELSE /\ sent' = [sent EXCEPT ![p] = @ \cup
                          IF LowStock(doc, id)
                          THEN LowStockNotices(doc.seller, id, req[p].faults)
                          ELSE {}]
                     /\ UNCHANGED files
                     /\ IF loc[p].i < Len(req[p].cart)
                        THEN /\ Goto(p, "co_find")
                             /\ loc' = [loc EXCEPT ![p].i = @ + 1]
                        ELSE /\ Goto(p, "co_create")
                             /\ loc' = [loc EXCEPT ![p].i = 1]
  /\ UNCHANGED <<orders, req, pre, served, users>>

\* await Order.create for seller bucket i (buckets are visited in insertion
\* order).  A validation error throws: the catch block answers 500 and the
\* orders created so far stay.  Then the new-order notification, inside its
\* own try block.  After the last bucket the response is 201.
CreateOrderCreate(p) ==
  /\ pc[p] = "co_create"
  /\ LET bucket == loc[p].buckets[loc[p].i]
         order == [NewOrder(req[p].user, bucket, req[p].pay[bucket.seller])
                     EXCEPT !.createdAt = req[p].now]
     IN IF ~OrderValid(order, req[p].noteLen)
        THEN /\ Respond(p, 500)
             /\ files' = [files EXCEPT ![p] = {}]
             /\ UNCHANGED <<orders, loc, sent>>
        ELSE /\ orders' = Append(orders, order)
             /\ sent' = [sent EXCEPT ![p] = @ \cup
                  NewOrderNotices(bucket.seller, Len(orders) + 1, req[p].faults)]
             /\ UNCHANGED files
             /\ loc' = [loc EXCEPT ![p].created = Append(@, Len(orders) + 1),
                                   ![p].i = @ + 1]
             /\ IF loc[p].i < Len(loc[p].buckets)
                THEN Goto(p, "co_create")
                ELSE Respond(p, 201)
  /\ UNCHANGED <<products, req, pre, served, users>>


(***************************************************************************)
(* Order documents: reads and order.save().                                *)
(***************************************************************************)
\* Order.findById(id): null when no such order.
OrderExists(oid) == oid \in 1..Len(orders)

Terminal == {"completed", "cancelled"}

\* order.save(): $set of the scalar paths whose in-memory value differs from
\* the value read, and $push of the history entries pushed in memory, applied
\* to the stored document as it is at the time of the write.
SaveOrder(stored, odoc, doc) ==
  [stored EXCEPT
     !.status = IF doc.status # odoc.status THEN doc.status ELSE @,
     !.isPaymentVerified =
        IF doc.isPaymentVerified # odoc.isPaymentVerified
        THEN doc.isPaymentVerified ELSE @,
     !.isArchived = IF doc.isArchived # odoc.isArchived THEN doc.isArchived ELSE @,
     !.isHiddenByBuyer =
        IF doc.isHiddenByBuyer # odoc.isHiddenByBuyer
        THEN doc.isHiddenByBuyer ELSE @,
     !.statusHistory =
        @ \o SubSeq(doc.statusHistory, Len(odoc.statusHistory) + 1,
                    Len(doc.statusHistory))]

SetStatusSilently(doc, status, note) == [doc EXCEPT !.status = status]

\* order.status = status; order.statusHistory.push({status, timestamp, note})
SetStatus(doc, status, note) ==
  [doc EXCEPT !.status = status,
              !.statusHistory = Append(@, [status |-> status, note |-> note])]

(***************************************************************************)
(* updateOrderStatus (PUT /api/orders/:id/status, sellers only).           *)
(***************************************************************************)
\* The enum check of the body, Order.findById, the ownership check.
UpdateStatusStart(p, user, oid, status, note) ==
  /\ Begin(p, [NoReq EXCEPT !.op = "updateStatus", !.user = user, !.oid = oid,
                            !.status = status, !.note = note])
  /\ IF status \notin validStatuses THEN Respond(p, 400) /\ UNCHANGED loc
     ELSE IF ~OrderExists(oid) THEN Respond(p, 404) /\ UNCHANGED loc
     ELSE IF orders[oid].seller # user THEN Respond(p, 403) /\ UNCHANGED loc
     ELSE /\ Goto(p, "us_save")
          /\ loc' = [loc EXCEPT ![p] = [NoLoc EXCEPT !.odoc = orders[oid]]]
  /\ UNCHANGED <<products, orders>>

\* The in-memory document updateOrderStatus saves.
UpdateStatusDoc(odoc, status, note) ==
  SetStatus(odoc, status, IF note = "" THEN "Status updated" ELSE note)

UpdateStatusSaveRestoringStock(p) ==
  /\ pc[p] = "us_save"
  /\ orders' = [orders EXCEPT ![req[p].oid] =
        SaveOrder(@, loc[p].odoc,
                  UpdateStatusDoc(loc[p].odoc, req[p].status, req[p].note))]
  /\ products' = [id \in ProductIds |->
        IF req[p].status = "cancelled" /\ products[id].exists
        THEN [products[id] EXCEPT !.quantity = @ + SumQty(loc[p].odoc.items, id)]
        ELSE products[id]]
  /\ Respond(p, 200)
  /\ UNCHANGED <<req, loc, pre, served, users, files, sent>>

\* await order.save()
UpdateStatusSave(p) ==
  /\ pc[p] = "us_save"
  /\ orders' = [orders EXCEPT ![req[p].oid] =
        SaveOrder(@, loc[p].odoc,
                  UpdateStatusDoc(loc[p].odoc, req[p].status, req[p].note))]
  /\ Respond(p, 200)
  /\ UNCHANGED <<products, req, loc, pre, served, users, files, sent>>

(***************************************************************************)
(* verifyPayment (PUT /api/orders/:id/payment, sellers only).              *)
(***************************************************************************)
VerifyPaymentStart(p, user, oid) ==
  /\ Begin(p, [NoReq EXCEPT !.op = "verifyPayment", !.user = user, !.oid = oid])
  /\ IF ~OrderExists(oid) THEN Respond(p, 404) /\ UNCHANGED loc
     ELSE IF orders[oid].seller # user THEN Respond(p, 403) /\ UNCHANGED loc
     ELSE /\ Goto(p, "vp_save")
          /\ loc' = [loc EXCEPT ![p] = [NoLoc EXCEPT !.odoc = orders[oid]]]
  /\ UNCHANGED <<products, orders>>

VerifyPaymentDocKeepsStatus(odoc) ==
  [odoc EXCEPT !.isPaymentVerified = TRUE,
               !.statusHistory = Append(@, [status |-> "preparing",
                                            note |-> "Payment verified"])]

\* The in-memory document verifyPayment saves.
VerifyPaymentDoc(odoc) ==
  SetStatus([odoc EXCEPT !.isPaymentVerified = TRUE], "preparing", "Payment verified")

VerifyPaymentSave(p) ==
  /\ pc[p] = "vp_save"
  /\ orders' = [orders EXCEPT ![req[p].oid] =
        SaveOrder(@, loc[p].odoc, VerifyPaymentDoc(loc[p].odoc))]
  /\ Respond(p, 200)
  /\ UNCHANGED <<products, req, loc, pre, served, users, files, sent>>

(***************************************************************************)
(* archiveOrder (PUT /api/orders/:id/archive, sellers only).               *)
(***************************************************************************)
ArchivableAlways(order) == order.status \in StatusEnum

\* "Only completed or cancelled orders can be archived"
Archivable(order) == order.status \in Terminal

ArchiveStart(p, user, oid, archive) ==
  /\ Begin(p, [NoReq EXCEPT !.op = "archiveOrder", !.user = user, !.oid = oid,
                            !.archive = archive])
  /\ IF ~OrderExists(oid) THEN Respond(p, 404) /\ UNCHANGED loc
     ELSE IF orders[oid].seller # user THEN Respond(p, 403) /\ UNCHANGED loc
     ELSE IF ~Archivable(orders[oid]) THEN Respond(p, 400) /\ UNCHANGED loc
     ELSE /\ Goto(p, "ar_save")
          /\ loc' = [loc EXCEPT ![p] = [NoLoc EXCEPT !.odoc = orders[oid]]]
  /\ UNCHANGED <<products, orders>>

ArchiveSave(p) ==
  /\ pc[p] = "ar_save"
  /\ orders' = [orders EXCEPT ![req[p].oid] =
        SaveOrder(@, loc[p].odoc, [loc[p].odoc EXCEPT !.isArchived = req[p].archive])]
  /\ Respond(p, 200)
  /\ UNCHANGED <<products, req, loc, pre, served, users, files, sent>>

(***************************************************************************)
(* bulkArchiveOrders (PUT /api/orders/bulk-archive, sellers only).         *)
(***************************************************************************)
Range(seq) == {seq[k] : k \in 1..Len(seq)}

\* Order.find({_id: {$in: orderIds}, seller: req.user._id})
OwnedAmong(oids, user) ==
  {i \in 1..Len(orders) : i \in Range(oids) /\ orders[i].seller = user}

NonArchivableNever(found, archive) ==
  {i \in found : archive /\ orders[i].status \notin StatusEnum}

\* orders.filter(o => archive && !["completed","cancelled"].includes(o.status))
NonArchivable(found, archive) ==
  {i \in found : archive /\ orders[i].status \notin Terminal}

BulkArchiveStart(p, user, oids, archive) ==
  /\ Begin(p, [NoReq EXCEPT !.op = "bulkArchive", !.user = user, !.oids = oids,
                            !.archive = archive])
  /\ IF Len(oids) = 0 THEN Respond(p, 400)
     ELSE IF Cardinality(OwnedAmong(oids, user)) # Len(oids) THEN Respond(p, 403)
     ELSE IF NonArchivable(OwnedAmong(oids, user), archive) # {} THEN Respond(p, 400)
     ELSE Goto(p, "ba_write")
  /\ loc' = [loc EXCEPT ![p] = NoLoc]
  /\ UNCHANGED <<products, orders>>

BulkArchiveWriteIfTerminal(p) ==
  /\ pc[p] = "ba_write"
  /\ orders' = [i \in 1..Len(orders) |->
        IF /\ i \in OwnedAmong(req[p].oids, req[p].user)
           /\ req[p].archive => orders[i].status \in Terminal
        THEN [orders[i] EXCEPT !.isArchived = req[p].archive]
        ELSE orders[i]]
  /\ loc' = [loc EXCEPT ![p].count = Len(req[p].oids)]
  /\ Respond(p, 200)
  /\ UNCHANGED <<products, req, pre, served, users, files, sent>>

\* Order.updateMany({_id: {$in: orderIds}, seller: req.user._id}, {isArchived: archive})
BulkArchiveWrite(p) ==
  /\ pc[p] = "ba_write"
  /\ orders' = [i \in 1..Len(orders) |->
        IF i \in OwnedAmong(req[p].oids, req[p].user)
        THEN [orders[i] EXCEPT !.isArchived = req[p].archive]
        ELSE orders[i]]
  /\ loc' = [loc EXCEPT ![p].count = Len(req[p].oids)]
  /\ Respond(p, 200)
  /\ UNCHANGED <<products, req, pre, served, users, files, sent>>

(***************************************************************************)
(* cancelOrderByCustomer (PUT /api/orders/:id/cancel-customer, customers). *)
(***************************************************************************)
CancellableUntilCompleted(order) ==
  order.status \in {"pending", "confirmed", "preparing", "ready"}

\* "Only pending or confirmed orders can be cancelled by customer"
Cancellable(order) == order.status \in {"pending", "confirmed"}

CancelStart(p, user, oid, reason) ==
  /\ Begin(p, [NoReq EXCEPT !.op = "cancelOrder", !.user = user, !.oid = oid,
                            !.note = reason])
  /\ IF ~OrderExists(oid) THEN Respond(p, 404) /\ UNCHANGED loc
     ELSE IF orders[oid].buyer # user THEN Respond(p, 403) /\ UNCHANGED loc
     ELSE IF ~Cancellable(orders[oid]) THEN Respond(p, 400) /\ UNCHANGED loc
     ELSE /\ Goto(p, "cc_find")
          /\ loc' = [loc EXCEPT ![p] = [NoLoc EXCEPT !.odoc = orders[oid], !.i = 1]]
  /\ UNCHANGED <<products, orders>>

\* After line i of the restore loop: the next line, or the save of the order.
CancelNext(p) ==
  IF loc[p].i < Len(loc[p].odoc.items) THEN "cc_find" ELSE "cc_order"

\* Product.findById(item.product) for line i; a missing product is skipped.
CancelFind(p) ==
  /\ pc[p] = "cc_find"
  /\ LET item == loc[p].odoc.items[loc[p].i]
         product == products[item.product]
     IN IF ~product.exists
        THEN /\ Goto(p, CancelNext(p))
             /\ loc' = [loc EXCEPT ![p].i = @ + 1]
        ELSE /\ Goto(p, "cc_save")
             /\ loc' = [loc EXCEPT
                  ![p].rdoc = product,
                  ![p].doc = [product EXCEPT !.quantity = @ + item.quantity]]
  /\ UNCHANGED <<products, orders, req, pre, served, users, files, sent>>

\* await product.save() for line i.
CancelSave(p) ==
  /\ pc[p] = "cc_save"
  /\ LET id == loc[p].odoc.items[loc[p].i].product
     IN IF SaveProductThrows(products[id], loc[p].rdoc, loc[p].doc)
        THEN /\ Respond(p, 500)
             /\ UNCHANGED <<products, loc>>
        ELSE /\ products' = [products EXCEPT
                                ![id] = SaveProduct(@, loc[p].rdoc, loc[p].doc)]
             /\ Goto(p, CancelNext(p))
             /\ loc' = [loc EXCEPT ![p].i = @ + 1]
  /\ UNCHANGED <<orders, req, pre, served, users, files, sent>>

\* The in-memory document cancelOrderByCustomer saves.
CancelDoc(odoc, reason) ==
  SetStatus(odoc, "cancelled",
            IF reason = "" THEN "Cancelled by customer"
            ELSE "Cancelled by customer. Reason")

\* await order.save()
CancelOrderSave(p) ==
  /\ pc[p] = "cc_order"
  /\ orders' = [orders EXCEPT ![req[p].oid] =
        SaveOrder(@, loc[p].odoc, CancelDoc(loc[p].odoc, req[p].note))]
  /\ Respond(p, 200)
  /\ UNCHANGED <<products, req, loc, pre, served, users, files, sent>>

(***************************************************************************)
(* hideOrderForBuyer, bulkHideOrdersForBuyer (customers only).             *)
(***************************************************************************)
HideStartAnyStatus(p, user, oid) ==
  /\ Begin(p, [NoReq EXCEPT !.op = "hideOrder", !.user = user, !.oid = oid])
  /\ IF ~OrderExists(oid) THEN Respond(p, 404) /\ UNCHANGED loc
     ELSE IF orders[oid].buyer # user THEN Respond(p, 403) /\ UNCHANGED loc
     ELSE /\ Goto(p, "hi_save")
          /\ loc' = [loc EXCEPT ![p] = [NoLoc EXCEPT !.odoc = orders[oid]]]
  /\ UNCHANGED <<products, orders>>

\* Order.findById, the ownership check, the status check.
HideStart(p, user, oid) ==
  /\ Begin(p, [NoReq EXCEPT !.op = "hideOrder", !.user = user, !.oid = oid])
  /\ IF ~OrderExists(oid) THEN Respond(p, 404) /\ UNCHANGED loc
     ELSE IF orders[oid].buyer # user THEN Respond(p, 403) /\ UNCHANGED loc
     ELSE IF orders[oid].status \notin Terminal THEN Respond(p, 400) /\ UNCHANGED loc
     ELSE /\ Goto(p, "hi_save")
          /\ loc' = [loc EXCEPT ![p] = [NoLoc EXCEPT !.odoc = orders[oid]]]
  /\ UNCHANGED <<products, orders>>

HideSave(p) ==
  /\ pc[p] = "hi_save"
  /\ orders' = [orders EXCEPT ![req[p].oid] =
        SaveOrder(@, loc[p].odoc, [loc[p].odoc EXCEPT !.isHiddenByBuyer = TRUE])]
  /\ Respond(p, 200)
  /\ UNCHANGED <<products, req, loc, pre, served, users, files, sent>>

HideMatchesAnyBuyer(oids, user) ==
  {i \in 1..Len(orders) : i \in Range(oids) /\ orders[i].status \in Terminal}

HideMatchesAnyStatus(oids, user) ==
  {i \in 1..Len(orders) : i \in Range(oids) /\ orders[i].buyer = user}

\* The filter of the updateMany of bulkHideOrdersForBuyer.
HideMatches(oids, user) ==
  {i \in 1..Len(orders) :
     i \in Range(oids) /\ orders[i].buyer = user /\ orders[i].status \in Terminal}

\* The request arrives; the handler checks orderIds and issues its one
\* database call, no read before it.
BulkHideStart(p, user, oids) ==
  /\ Begin(p, [NoReq EXCEPT !.op = "bulkHide", !.user = user, !.oids = oids])
  /\ IF Len(oids) = 0 THEN Respond(p, 400) ELSE Goto(p, "bh_write")
  /\ loc' = [loc EXCEPT ![p] = NoLoc]
  /\ UNCHANGED <<products, orders>>

\* await Order.updateMany(filter, { isHiddenByBuyer: true }): the filter is
\* evaluated on each document as it is written.  The schema has timestamps,
\* so the update also sets updatedAt: every matched document is written,
\* already hidden or not, and modifiedCount is the number of matched
\* documents.
BulkHideWrite(p) ==
  /\ pc[p] = "bh_write"
  /\ orders' = [i \in 1..Len(orders) |->
        IF i \in HideMatches(req[p].oids, req[p].user)
        THEN [orders[i] EXCEPT !.isHiddenByBuyer = TRUE]
        ELSE orders[i]]
  /\ loc' = [loc EXCEPT ![p].count =
        Cardinality(HideMatches(req[p].oids, req[p].user))]
  /\ Respond(p, 200)
  /\ UNCHANGED <<products, req, pre, served, users, files, sent>>

(***************************************************************************)
(* updateProduct, deleteProduct (sellers only, owner only).                *)
(***************************************************************************)
\* allowedUpdates.forEach(field => product[field] = req.body[field])
ApplyUpdates(product, r) ==
  [product EXCEPT
     !.quantity = IF "quantity" \in r.fields THEN r.quantity ELSE @,
     !.price = IF "price" \in r.fields THEN r.price ELSE @,
     !.isAvailable = IF "isAvailable" \in r.fields THEN r.isAvailable ELSE @]

UpdateProductStart(p, user, pid, fields, quantity, price, isAvailable) ==
  /\ Begin(p, [NoReq EXCEPT !.op = "updateProduct", !.user = user, !.pid = pid,
                            !.fields = fields, !.quantity = quantity,
                            !.price = price, !.isAvailable = isAvailable])
  /\ IF ~products[pid].exists THEN Respond(p, 404) /\ UNCHANGED loc
     ELSE IF products[pid].seller # user THEN Respond(p, 403) /\ UNCHANGED loc
     ELSE /\ Goto(p, "up_save")
          /\ loc' = [loc EXCEPT ![p] = [NoLoc EXCEPT
                       !.rdoc = products[pid],
                       !.doc = ApplyUpdates(products[pid], req'[p])]]
  /\ UNCHANGED <<products, orders>>

UpdateProductSaveRepricing(p) ==
  /\ pc[p] = "up_save"
  /\ LET id == req[p].pid
     IN IF ~ProductValid(loc[p].doc)
        THEN Respond(p, 400) /\ UNCHANGED <<products, orders>>
        ELSE /\ products' = [products EXCEPT
                                ![id] = SaveProduct(@, loc[p].rdoc, loc[p].doc)]
             /\ orders' = [i \in 1..Len(orders) |->
                  [orders[i] EXCEPT !.items =
                     [k \in 1..Len(@) |->
                        IF @[k].product = id
                        THEN [@[k] EXCEPT !.price = loc[p].doc.price]
                        ELSE @[k]]]]
             /\ Respond(p, 200)
  /\ UNCHANGED <<req, loc, pre, served, users, files, sent>>

\* await product.save(): a ValidationError is answered 400, any other error 500.
UpdateProductSave(p) ==
  /\ pc[p] = "up_save"
  /\ LET id == req[p].pid
     IN IF ~ProductValid(loc[p].doc)
        THEN Respond(p, 400) /\ UNCHANGED products
        ELSE IF SaveProductThrows(products[id], loc[p].rdoc, loc[p].doc)
        THEN Respond(p, 500) /\ UNCHANGED products
        ELSE /\ products' = [products EXCEPT
                                ![id] = SaveProduct(@, loc[p].rdoc, loc[p].doc)]
             /\ Respond(p, 200)
  /\ UNCHANGED <<orders, req, loc, pre, served, users, files, sent>>

DeleteProductStart(p, user, pid) ==
  /\ Begin(p, [NoReq EXCEPT !.op = "deleteProduct", !.user = user, !.pid = pid])
  /\ IF ~products[pid].exists THEN Respond(p, 404)
     ELSE IF products[pid].seller # user THEN Respond(p, 403)
     ELSE Goto(p, "dp_delete")
  /\ loc' = [loc EXCEPT ![p] = NoLoc]
  /\ UNCHANGED <<products, orders>>

\* await product.deleteOne()
DeleteProductDelete(p) ==
  /\ pc[p] = "dp_delete"
  /\ products' = [products EXCEPT ![req[p].pid] = NoProduct]
  /\ Respond(p, 200)
  /\ UNCHANGED <<orders, req, loc, pre, served, users, files, sent>>


(***************************************************************************)
(* authorize(role): the route middleware that lets only one role through.  *)
(***************************************************************************)
\* The role of an account.
RoleOf(user) == IF user \in Sellers THEN "seller" ELSE "customer"

\* The middleware answers 403 and the handler does not run.
Forbidden(p, r) ==
  /\ Begin(p, r)
  /\ Respond(p, 403)
  /\ loc' = [loc EXCEPT ![p] = NoLoc]
  /\ UNCHANGED <<products, orders>>

(***************************************************************************)
(* getOrder (GET /api/orders/:id, any authenticated user).                 *)
(***************************************************************************)
\* Order.findById(id).populate("buyer").populate("seller"): a reference to a
\* deleted account is populated with null, and reading its _id throws, which
\* the catch block answers 500.  Otherwise the caller must be the buyer or
\* the seller of the order.
GetOrder(p, user, oid) ==
  /\ Begin(p, [NoReq EXCEPT !.op = "getOrder", !.user = user, !.oid = oid])
  /\ IF ~OrderExists(oid) THEN Respond(p, 404) /\ UNCHANGED loc
     ELSE IF orders[oid].buyer \notin users \/ orders[oid].seller \notin users
     THEN Respond(p, 500) /\ UNCHANGED loc
     ELSE IF orders[oid].buyer # user /\ orders[oid].seller # user
     THEN Respond(p, 403) /\ UNCHANGED loc
     ELSE /\ Respond(p, 200)
          /\ loc' = [loc EXCEPT ![p] = [NoLoc EXCEPT !.odoc = orders[oid]]]
  /\ UNCHANGED <<products, orders>>

(***************************************************************************)
(* deleteSeller, deleteCustomer (DELETE /api/admin/..., administrators).   *)
(***************************************************************************)
ActivePendingOnly == {"pending"}

\* status: { $in: ["pending", "confirmed", "preparing", "ready"] }
Active == {"pending", "confirmed", "preparing", "ready"}

\* The ids of the stored orders, in collection order.
OrderIdSeq == [i \in 1..Len(orders) |-> i]

\* order.status = "cancelled"; order.statusHistory.push({..., note})
CascadeDoc(odoc, note) == SetStatus(odoc, "cancelled", note)

\* User.findById(req.params.id) and the role check.
DeleteSellerStart(p, target) ==
  /\ Begin(p, [NoReq EXCEPT !.op = "deleteSeller", !.user = "admin",
                            !.target = target])
  /\ IF target \notin users THEN Respond(p, 404)
     ELSE IF target \notin Sellers THEN Respond(p, 400)
     ELSE Goto(p, "ds_find")
  /\ loc' = [loc EXCEPT ![p] = NoLoc]
  /\ UNCHANGED <<products, orders>>

\* Order.find({seller: seller._id, status: {$in: [...]}})
DeleteSellerFind(p) ==
  /\ pc[p] = "ds_find"
  /\ LET found == SelectSeq(OrderIdSeq, LAMBDA i : /\ orders[i].seller = req[p].target
                                         /\ orders[i].status \in Active)
     IN /\ loc' = [loc EXCEPT ![p].found = found, ![p].docs = orders, ![p].i = 1]
        /\ IF found = <<>> THEN Goto(p, "ds_products") ELSE Goto(p, "ds_save")
  /\ UNCHANGED <<products, orders, req, pre, served, users, files, sent>>

\* await order.save() for the next order to cancel.
DeleteSellerSave(p) ==
  /\ pc[p] = "ds_save"
  /\ LET id == loc[p].found[loc[p].i]
         odoc == loc[p].docs[id]
     IN orders' = [orders EXCEPT ![id] =
          SaveOrder(@, odoc,
            CascadeDoc(odoc, "Order cancelled - seller account was removed"))]
  /\ loc' = [loc EXCEPT ![p].i = @ + 1]
  /\ IF loc[p].i < Len(loc[p].found) THEN Goto(p, "ds_save")
     ELSE Goto(p, "ds_products")
  /\ UNCHANGED <<products, req, pre, served, users, files, sent>>

\* Product.deleteMany({seller: seller._id})
DeleteSellerProducts(p) ==
  /\ pc[p] = "ds_products"
  /\ products' = [id \in ProductIds |->
        IF products[id].exists /\ products[id].seller = req[p].target
        THEN NoProduct ELSE products[id]]
  /\ Goto(p, "ds_user")
  /\ UNCHANGED <<orders, req, loc, pre, served, users, files, sent>>

\* User.findByIdAndDelete(req.params.id), then the response.
DeleteSellerUser(p) ==
  /\ pc[p] = "ds_user"
  /\ users' = users \ {req[p].target}
  /\ Respond(p, 200)
  /\ UNCHANGED <<products, orders, req, loc, pre, served, files, sent>>

DeleteCustomerStart(p, target) ==
  /\ Begin(p, [NoReq EXCEPT !.op = "deleteCustomer", !.user = "admin",
                            !.target = target])
  /\ IF target \notin users THEN Respond(p, 404)
     ELSE IF target \notin Buyers THEN Respond(p, 400)
     ELSE Goto(p, "dc_find")
  /\ loc' = [loc EXCEPT ![p] = NoLoc]
  /\ UNCHANGED <<products, orders>>

\* Order.find({customer: customer._id, status: {$in: [...]}}).  The Order
\* schema has no path `customer` (the buyer is stored as `buyer`).  What the
\* query matches depends on the strictQuery option of the Mongoose release in
\* use, which the repository does not fix: the unknown path is kept, and no
\* order matches, or it is stripped from the filter, and every active order
\* of every buyer matches.
DeleteCustomerFind(p) ==
  /\ pc[p] = "dc_find"
  /\ \E strictQuery \in BOOLEAN :
       LET found == IF strictQuery
                    THEN SelectSeq(OrderIdSeq, LAMBDA i : orders[i].status \in Active)
                    ELSE <<>>
       IN /\ loc' = [loc EXCEPT ![p].found = found, ![p].docs = orders, ![p].i = 1]
          /\ IF found = <<>> THEN Goto(p, "dc_user") ELSE Goto(p, "dc_save")
  /\ UNCHANGED <<products, orders, req, pre, served, users, files, sent>>

DeleteCustomerSave(p) ==
  /\ pc[p] = "dc_save"
  /\ LET id == loc[p].found[loc[p].i]
         odoc == loc[p].docs[id]
     IN orders' = [orders EXCEPT ![id] =
          SaveOrder(@, odoc,
            CascadeDoc(odoc, "Order cancelled - customer account was removed"))]
  /\ loc' = [loc EXCEPT ![p].i = @ + 1]
  /\ IF loc[p].i < Len(loc[p].found) THEN Goto(p, "dc_save")
     ELSE Goto(p, "dc_user")
  /\ UNCHANGED <<products, req, pre, served, users, files, sent>>

DeleteCustomerUser(p) ==
  /\ pc[p] = "dc_user"
  /\ users' = users \ {req[p].target}
  /\ Respond(p, 200)
  /\ UNCHANGED <<products, orders, req, loc, pre, served, files, sent>>
(***************************************************************************)
(* getMyOrders (GET /api/orders/my-orders, any authenticated user) and     *)
(* getSellerOrders (GET /api/orders/seller, sellers only).                 *)
(***************************************************************************)
RECURSIVE NewestFirst(_)
\* .sort({ createdAt: -1 }) of ids given in creation order.
NewestFirst(ids) ==
  IF ids = <<>> THEN <<>> ELSE Append(NewestFirst(Tail(ids)), Head(ids))

\* { buyer: req.user._id, isHiddenByBuyer: { $ne: true } }
MyOrdersQuery(order, user) ==
  /\ order.buyer = user
  /\ order.isHiddenByBuyer # TRUE

SellerQueryHidingHidden(order, user, status, archived) ==
  /\ order.seller = user
  /\ order.isHiddenByBuyer # TRUE
  /\ (status \notin {"", "all"}) => order.status = status
  /\ (archived = "true") => order.isArchived = TRUE
  /\ (archived \in {"false", ""}) => order.isArchived # TRUE

\* The query of getSellerOrders: the seller; the status unless it is absent
\* ("") or "all"; isArchived true for archived=true, not true for
\* archived=false or absent, and not filtered for any other value.
SellerQuery(order, user, status, archived) ==
  /\ order.seller = user
  /\ (status \notin {"", "all"}) => order.status = status
  /\ (archived = "true") => order.isArchived = TRUE
  /\ (archived \in {"false", ""}) => order.isArchived # TRUE

\* await Order.find(...).populate("seller", "name").sort({ createdAt: -1 })
GetMyOrders(p, user) ==
  /\ Begin(p, [NoReq EXCEPT !.op = "getMyOrders", !.user = user])
  /\ LET ids == NewestFirst(SelectSeq(OrderIdSeq,
                                      LAMBDA k : MyOrdersQuery(orders[k], user)))
     IN loc' = [loc EXCEPT ![p] = [NoLoc EXCEPT !.view.orders = ids,
                                                !.view.count = Len(ids)]]
  /\ Respond(p, 200)
  /\ UNCHANGED <<products, orders>>

\* await Order.find(query).populate("buyer", "name email").sort(...)
SellerOrdersStart(p, user, status, archived) ==
  /\ Begin(p, [NoReq EXCEPT !.op = "getSellerOrders", !.user = user,
                            !.status = status, !.archived = archived])
  /\ LET ids == NewestFirst(SelectSeq(OrderIdSeq,
                   LAMBDA k : SellerQuery(orders[k], user, status, archived)))
     IN loc' = [loc EXCEPT ![p] = [NoLoc EXCEPT !.view.orders = ids,
                                                !.view.count = Len(ids)]]
  /\ Goto(p, "so_aggregate")
  /\ UNCHANGED <<products, orders>>

\* await Order.aggregate([{ $match: { seller, isArchived: { $ne: true } } },
\*                        { $group: { _id: "$status", count: { $sum: 1 } } }])
SellerOrdersAggregate(p) ==
  /\ pc[p] = "so_aggregate"
  /\ loc' = [loc EXCEPT ![p].view.statusCounts =
        [s \in DOMAIN NoCounts |->
           Cardinality({k \in 1..Len(orders) :
                          /\ orders[k].seller = req[p].user
                          /\ orders[k].isArchived # TRUE
                          /\ orders[k].status = s})]]
  /\ Goto(p, "so_count")
  /\ UNCHANGED <<products, orders, req, pre, served, users, files, sent>>

\* await Order.countDocuments({ seller, isArchived: true }), then the body
SellerOrdersCount(p) ==
  /\ pc[p] = "so_count"
  /\ loc' = [loc EXCEPT ![p].view.statusCounts["archived"] =
        Cardinality({k \in 1..Len(orders) :
                       /\ orders[k].seller = req[p].user
                       /\ orders[k].isArchived = TRUE})]
  /\ Respond(p, 200)
  /\ UNCHANGED <<products, orders, req, pre, served, users, files, sent>>

(***************************************************************************)
(* getSellerAnalytics (GET /api/orders/seller/analytics, sellers only).    *)
(* Time is counted in slots of half a day from an epoch at midnight; the   *)
(* server's time zone is UTC, so that local and ISO dates agree.           *)
(***************************************************************************)
\* Slots per calendar day.
DayLength == 2

\* new Date(y, m, d) of an instant: the midnight that starts its day.
StartOfDay(t) == (t \div DayLength) * DayLength

\* toISOString().split('T')[0] of an instant: its calendar day.
DayOf(t) == t \div DayLength

\* periodDays of the comparison.
PeriodDays(period) ==
  IF period = "today" THEN 1
  ELSE IF period = "week" THEN 7
  ELSE IF period = "month" THEN 30
  ELSE 365

\* dateFilter: an explicit range runs from the start of startDate to the end
\* of endDate; today runs from the start of today; week from the start of
\* today minus seven days; any other period, or none, is all time.
InDateFilter(t, r) ==
  IF r.startDate # NoDate /\ r.endDate # NoDate
  THEN /\ t >= r.startDate * DayLength
       /\ t <= r.endDate * DayLength + (DayLength - 1)
  ELSE IF r.period = "today" THEN t >= StartOfDay(r.now)
  ELSE IF r.period = "week" THEN t >= StartOfDay(r.now) - 7 * DayLength
  ELSE TRUE

RECURSIVE Revenue(_, _)
\* reduce((sum, o) => sum + o.total, 0) over the orders named by ids.
Revenue(book, ids) ==
  IF ids = {} THEN 0
  ELSE LET k == CHOOSE k \in ids : TRUE
       IN book[k].total + Revenue(book, ids \ {k})

\* Math.round(n / d) for d > 0: the nearest integer, halves upwards.
Round(n, d) == (2 * n + d) \div (2 * d)

\* The number of days of salesOverTime.
SeriesDays == 14

\* groupByDate over completedOrders, then for i = 13 .. 0 the entry of the
\* day i days before now, or zeros.
SalesOverTime(completed, now) ==
  [j \in 1..SeriesDays |->
     LET date == DayOf(now) - (SeriesDays - j)
         onDay == {k \in completed : DayOf(orders[k].createdAt) = date}
     IN [date |-> date, orders |-> Cardinality(onDay),
         revenue |-> Revenue(orders, onDay)]]

\* await Order.find(baseQuery), then the summary and the daily series.
AnalyticsStart(p, user, period, startDate, endDate, now) ==
  /\ \A k \in 1..Len(orders) : orders[k].createdAt <= now
  /\ Begin(p, [NoReq EXCEPT !.op = "getSellerAnalytics", !.user = user,
                            !.period = period, !.startDate = startDate,
                            !.endDate = endDate, !.now = now])
  /\ LET r == [period |-> period, startDate |-> startDate, endDate |-> endDate,
               now |-> now]
         found == {k \in 1..Len(orders) :
                     /\ orders[k].seller = user
                     /\ InDateFilter(orders[k].createdAt, r)}
         completed == {k \in found : orders[k].status = "completed"}
     IN loc' = [loc EXCEPT ![p] = [NoLoc EXCEPT !.report =
          [NoReport EXCEPT !.totalRevenue = Revenue(orders, completed),
                           !.totalOrders = Cardinality(found),
                           !.completedOrders = Cardinality(completed),
                           !.salesOverTime = SalesOverTime(completed, now)]]]
  /\ IF period \notin {"", "all"} THEN Goto(p, "an_prev") ELSE Goto(p, "an_market")
  /\ UNCHANGED <<products, orders>>

\* The previous window: from 2 x periodDays before now to periodDays before
\* now, the latter excluded.
InPreviousPeriod(t, period, now) ==
  /\ t >= now - 2 * PeriodDays(period) * DayLength
  /\ t < now - PeriodDays(period) * DayLength

\* revenueChange, in tenths of a percent: Math.round(change * 10) / 10.
RevenueChange(totalRevenue, previousPeriodRevenue) ==
  IF previousPeriodRevenue > 0
  THEN Round((totalRevenue - previousPeriodRevenue) * 1000, previousPeriodRevenue)
  ELSE 0

\* await Order.find({ seller, status: 'completed', createdAt: {...} })
AnalyticsPrevious(p) ==
  /\ pc[p] = "an_prev"
  /\ LET prevOrders == {k \in 1..Len(orders) :
                          /\ orders[k].seller = req[p].user
                          /\ orders[k].status = "completed"
                          /\ InPreviousPeriod(orders[k].createdAt, req[p].period,
                                              req[p].now)}
     IN loc' = [loc EXCEPT ![p].report.revenueChange =
                  RevenueChange(loc[p].report.totalRevenue,
                                Revenue(orders, prevOrders))]
  /\ Goto(p, "an_market")
  /\ UNCHANGED <<products, orders, req, pre, served, users, files, sent>>

\* await Order.aggregate(marketComparison), then the body.
AnalyticsMarket(p) ==
  /\ pc[p] = "an_market"
  /\ Respond(p, 200)
  /\ UNCHANGED <<products, orders, req, loc, pre, served, users, files, sent>>

Idle ==
  /\ pc = [p \in Procs |-> "idle"]
  /\ req = [p \in Procs |-> NoReq]
  /\ loc = [p \in Procs |-> NoLoc]
  /\ resp = [p \in Procs |-> 0]
  /\ pre = [p \in Procs |-> NoPre]
  /\ served = 0
  /\ users = Sellers \cup Buyers
  /\ files = [p \in Procs |-> {}]
  /\ sent = [p \in Procs |-> {}]

Init ==
  /\ products = InitProducts
  /\ orders = <<>>
  /\ Idle

(***************************************************************************)
(* Requests.                                                               *)
(***************************************************************************)
Line(id, q) == [productId |-> id, quantity |-> q]

\* Carts of the lifecycle specification: one line, two products of one
\* seller, the same product twice, a second seller.
CartsBasic ==
  { <<Line("pA", 1)>>, <<Line("pA", 1), Line("pB", 1)>>,
    <<Line("pA", 1), Line("pC", 1)>>, <<Line("pA", 1), Line("pA", 1)>> }

\* Status values a body may carry: the schema's enumeration and a stranger.
StatusInputs == StatusEnum \cup {"shipped"}

\* Notes a status update may carry: none, or one with the move to preparing.
NoteInputs(status) == IF status = "preparing" THEN {"", "started cooking"} ELSE {""}

ReasonInputs == {"", "changed my mind"}

\* Order ids a request may name: the orders that exist and one that does not.
OrderIdInputs == 1..(Len(orders) + 1)

\* orderIds of a bulk request: up to MaxBulk ids in ascending order,
\* repetitions included (the handlers do not depend on the order of the ids).
BulkInputs ==
  {oids \in UNION {[1..n -> OrderIdInputs] : n \in 0..MaxBulk} :
     \A k \in 1..(Len(oids) - 1) : oids[k] <= oids[k + 1]}

(***************************************************************************)
(* Spec: the requests of the order lifecycle, served one at a time by      *)
(* slot 1.                                                                 *)
(***************************************************************************)
Accepting == served < MaxRequests

ReqCreateOrder ==
  /\ Accepting
  /\ \E user \in Buyers, cart \in CartsBasic : CreateOrderStart(1, user, cart, NoPay, 0, {}, {})

ReqUpdateStatus ==
  /\ Accepting
  /\ \E user \in Sellers, oid \in OrderIdInputs, status \in StatusInputs :
        \E note \in NoteInputs(status) : UpdateStatusStart(1, user, oid, status, note)

ReqVerifyPayment ==
  /\ Accepting
  /\ \E user \in Sellers, oid \in OrderIdInputs : VerifyPaymentStart(1, user, oid)

ReqArchive ==
  /\ Accepting
  /\ \E user \in Sellers, oid \in OrderIdInputs, archive \in BOOLEAN :
        ArchiveStart(1, user, oid, archive)

ReqBulkArchive ==
  /\ Accepting
  /\ \E user \in Sellers, oids \in BulkInputs, archive \in BOOLEAN :
        BulkArchiveStart(1, user, oids, archive)

ReqCancel ==
  /\ Accepting
  /\ \E user \in Buyers, oid \in OrderIdInputs, reason \in ReasonInputs :
        CancelStart(1, user, oid, reason)

Step(p) ==
  \/ CreateOrderFind(p)
  \/ CreateOrderSave(p)
  \/ CreateOrderCreate(p)
  \/ UpdateStatusSave(p)
  \/ VerifyPaymentSave(p)
  \/ ArchiveSave(p)
  \/ BulkArchiveWrite(p)
  \/ CancelFind(p)
  \/ CancelSave(p)
  \/ CancelOrderSave(p)
  \/ Finish(p)

Next ==
  \/ ReqCreateOrder
  \/ ReqUpdateStatus
  \/ ReqVerifyPayment
  \/ ReqArchive
  \/ ReqBulkArchive
  \/ ReqCancel
  \/ Step(1)

Spec == Init /\ [][Next]_vars


(***************************************************************************)
(* SpecCart: one checkout, of any cart of up to MaxCart lines over pA and  *)
(* pB, against any catalogue the sellers' product operations produce.      *)
(***************************************************************************)
\* The states createProduct, updateProduct and deleteProduct leave a product
\* in: deleted, withdrawn from sale, or on sale with 0..MaxQty in stock.
CatalogueStates(id) ==
  {NoProduct, [InitProducts[id] EXCEPT !.isAvailable = FALSE]}
    \cup {[InitProducts[id] EXCEPT !.quantity = q] : q \in 0..MaxQty}

CartProducts == {"pA", "pB"}

\* Requested quantities: negative, zero, and up to the largest stock.
ReqQtys == -1..MaxQty

CartLines == {Line(id, q) : id \in CartProducts, q \in ReqQtys}

Carts == UNION {[1..n -> CartLines] : n \in 0..MaxCart}

\* paymentMethods and the length of notes: absent, a method of the enum, a
\* method outside it, a note longer than the schema allows.
CheckoutExtras ==
  { <<NoPay, 0>>, <<[NoPay EXCEPT !["s1"] = "cod"], 0>>,
    <<[NoPay EXCEPT !["s2"] = "cash"], 0>>, <<NoPay, NotesMaxLength + 1>> }

InitCart ==
  /\ products \in {c \in [ProductIds -> UNION {CatalogueStates(id) : id \in ProductIds}] :
                     /\ \A id \in CartProducts : c[id] \in CatalogueStates(id)
                     /\ \A id \in ProductIds \ CartProducts : c[id] = InitProducts[id]}
  /\ orders = <<>>
  /\ Idle

\* req.files: no upload, or the payment proof for seller s1.
UploadInputs == {{}, {"proof_s1"}}

ReqCheckout ==
  /\ served = 0
  /\ \E user \in Buyers, cart \in Carts, extra \in CheckoutExtras,
        uploads \in UploadInputs :
        CreateOrderStart(1, user, cart, extra[1], extra[2], uploads, {})

ReqCheckoutBadItems ==
  /\ served = 0
  /\ \E user \in Buyers, uploads \in UploadInputs :
        CreateOrderBadItems(1, user, uploads)

ReqCheckoutMissingItems ==
  /\ served = 0
  /\ \E user \in Buyers, uploads \in UploadInputs :
        CreateOrderMissingItems(1, user, uploads)

NextCart ==
  \/ ReqCheckout
  \/ ReqCheckoutBadItems
  \/ ReqCheckoutMissingItems
  \/ CreateOrderFind(1)
  \/ CreateOrderSave(1)
  \/ CreateOrderCreate(1)
  \/ Finish(1)

SpecCart == InitCart /\ [][NextCart]_vars

(***************************************************************************)
(* SpecConc: two request slots whose handlers interleave at their database *)
(* calls: checkouts, customer cancellations and the seller's product       *)
(* operations on one product.                                              *)
(***************************************************************************)
AcceptingConc == served < MaxConcRequests

ConcCarts == {<<Line("pA", q)>> : q \in 1..MaxQty} \cup {<<Line("pA", 1), Line("pB", 1)>>}

ConcCreateOrder(p) ==
  /\ AcceptingConc
  /\ \E cart \in ConcCarts : CreateOrderStart(p, "b1", cart, NoPay, 0, {}, {})

ConcCancel(p) ==
  /\ AcceptingConc
  /\ \E oid \in OrderIdInputs : CancelStart(p, "b1", oid, "")

ConcUpdateProduct(p) ==
  /\ AcceptingConc
  /\ \E quantity \in {-1, 0, MaxQty} :
        UpdateProductStart(p, "s1", "pA", {"quantity"}, quantity, 0, FALSE)

ConcDeleteProduct(p) ==
  /\ AcceptingConc
  /\ DeleteProductStart(p, "s1", "pA")

NextConc ==
  \E p \in Procs :
    \/ ConcCreateOrder(p)
    \/ ConcCancel(p)
    \/ ConcUpdateProduct(p)
    \/ ConcDeleteProduct(p)
    \/ CreateOrderFind(p)
    \/ CreateOrderSave(p)
    \/ CreateOrderCreate(p)
    \/ CancelFind(p)
    \/ CancelSave(p)
    \/ CancelOrderSave(p)
    \/ UpdateProductSave(p)
    \/ DeleteProductDelete(p)
    \/ Finish(p)

SpecConc == Init /\ [][NextConc]_vars


(***************************************************************************)
(* SpecCancel: checkouts, seller status updates and customer               *)
(* cancellations, served one at a time by slot 1.                          *)
(***************************************************************************)
AcceptingCancel == served < MaxCancelRequests

CartsCancel ==
  { <<Line("pA", 1), Line("pC", 1)>>, <<Line("pA", 1), Line("pA", 1)>> }

CnCreateOrder ==
  /\ AcceptingCancel
  /\ \E cart \in CartsCancel : CreateOrderStart(1, "b1", cart, NoPay, 0, {}, {})

CnUpdateStatus ==
  /\ AcceptingCancel
  /\ \E oid \in OrderIdInputs, status \in StatusInputs :
        UpdateStatusStart(1, "s1", oid, status, "")

CnCancel ==
  /\ AcceptingCancel
  /\ \E user \in Buyers, oid \in OrderIdInputs, reason \in ReasonInputs :
        CancelStart(1, user, oid, reason)

NextCancel ==
  \/ CnCreateOrder
  \/ CnUpdateStatus
  \/ CnCancel
  \/ CreateOrderFind(1)
  \/ CreateOrderSave(1)
  \/ CreateOrderCreate(1)
  \/ UpdateStatusSave(1)
  \/ CancelFind(1)
  \/ CancelSave(1)
  \/ CancelOrderSave(1)
  \/ Finish(1)

SpecCancel == Init /\ [][NextCancel]_vars

(***************************************************************************)
(* SpecBook: one request, of any handler and by any principal, against an  *)
(* order book of three orders in any state the lifecycle leaves them in.   *)
(***************************************************************************)
\* The three orders of the book: the product of their single line (pA and pC
\* are sold by s1, pB by s2) and their buyer.
BookItems == <<"pA", "pC", "pB">>

BookBuyers == <<"b1", "b1", "b2">>

\* Order k of the book as createOrder wrote it, then moved by its seller to
\* `status` if that is not pending, then hidden by its buyer if `hidden`.
BookOrder(k, status, hidden) ==
  LET id == BookItems[k]
      line == [product |-> id, price |-> PriceOf(id), quantity |-> 1]
      placed == NewOrder(BookBuyers[k], AddLine(<<>>, SellerOf(id), line)[1], "")
      moved == IF status = "pending" THEN placed
               ELSE UpdateStatusDoc(placed, status, "")
  IN [moved EXCEPT !.isHiddenByBuyer = hidden]

BookStates(k) ==
  {BookOrder(k, status, hidden) :
     status \in {"pending", "preparing", "completed", "cancelled"},
     hidden \in BOOLEAN} \ {BookOrder(k, status, TRUE) : status \in {"pending", "preparing"}}

\* The catalogue after the three checkouts of the book.
BookProducts ==
  [id \in ProductIds |-> [InitProducts[id] EXCEPT !.quantity = MaxQty - 1]]

InitBook ==
  /\ products = BookProducts
  /\ orders \in {<<a, b, c>> : a \in BookStates(1), b \in BookStates(2),
                              c \in BookStates(3)}
  /\ Idle

\* The authenticated principals, and the accounts an administrator may name.
Principals == Sellers \cup Buyers

AccountInputs == Principals \cup {"nobody"}

\* orderIds of a bulk hide: up to MaxHideBulk ids in ascending order.
HideBulkInputs ==
  {oids \in UNION {[1..n -> OrderIdInputs] : n \in 0..MaxHideBulk} :
     \A k \in 1..(Len(oids) - 1) : oids[k] <= oids[k + 1]}

BkHide ==
  /\ served = 0
  /\ \E user \in Principals, oid \in OrderIdInputs :
        IF RoleOf(user) = "customer"
        THEN HideStart(1, user, oid)
        ELSE Forbidden(1, [NoReq EXCEPT !.op = "hideOrder", !.user = user,
                                        !.oid = oid])

BkBulkHide ==
  /\ served = 0
  /\ \E user \in Buyers, oids \in HideBulkInputs : BulkHideStart(1, user, oids)

BkDeleteSeller ==
  /\ served = 0
  /\ \E target \in AccountInputs : DeleteSellerStart(1, target)

BkDeleteCustomer ==
  /\ served = 0
  /\ \E target \in AccountInputs : DeleteCustomerStart(1, target)

BkGetOrder ==
  /\ served = 0
  /\ \E user \in Principals, oid \in OrderIdInputs : GetOrder(1, user, oid)

BkUpdateStatus ==
  /\ served = 0
  /\ \E user \in Principals, oid \in OrderIdInputs, status \in StatusInputs :
        IF RoleOf(user) = "seller"
        THEN UpdateStatusStart(1, user, oid, status, "")
        ELSE Forbidden(1, [NoReq EXCEPT !.op = "updateStatus", !.user = user,
                                        !.oid = oid, !.status = status])

BkVerifyPayment ==
  /\ served = 0
  /\ \E user \in Principals, oid \in OrderIdInputs :
        IF RoleOf(user) = "seller"
        THEN VerifyPaymentStart(1, user, oid)
        ELSE Forbidden(1, [NoReq EXCEPT !.op = "verifyPayment", !.user = user,
                                        !.oid = oid])

BkArchive ==
  /\ served = 0
  /\ \E user \in Principals, oid \in OrderIdInputs, archive \in BOOLEAN :
        IF RoleOf(user) = "seller"
        THEN ArchiveStart(1, user, oid, archive)
        ELSE Forbidden(1, [NoReq EXCEPT !.op = "archiveOrder", !.user = user,
                                        !.oid = oid, !.archive = archive])

BkBulkArchive ==
  /\ served = 0
  /\ \E user \in Sellers, oids \in BulkInputs, archive \in BOOLEAN :
        BulkArchiveStart(1, user, oids, archive)

BkCancel ==
  /\ served = 0
  /\ \E user \in Principals, oid \in OrderIdInputs, reason \in ReasonInputs :
        IF RoleOf(user) = "customer"
        THEN CancelStart(1, user, oid, reason)
        ELSE Forbidden(1, [NoReq EXCEPT !.op = "cancelOrder", !.user = user,
                                        !.oid = oid])

BkCreateOrder ==
  /\ served = 0
  /\ \E user \in Buyers, cart \in CartsBasic :
        CreateOrderStart(1, user, cart, NoPay, 0, {}, {})

\* The seller of pA changes its price, its stock or its availability.
BkUpdateProduct ==
  /\ served = 0
  /\ \E user \in Sellers, field \in {"price", "quantity", "isAvailable"} :
        UpdateProductStart(1, user, "pA", {field}, 0, PriceOf("pA") + 1, FALSE)

BkDeleteProduct ==
  /\ served = 0
  /\ \E user \in Sellers : DeleteProductStart(1, user, "pA")

NextBook ==
  \/ BkHide
  \/ BkBulkHide
  \/ BkDeleteSeller
  \/ BkDeleteCustomer
  \/ BkGetOrder
  \/ BkUpdateStatus
  \/ BkVerifyPayment
  \/ BkArchive
  \/ BkBulkArchive
  \/ BkCancel
  \/ BkCreateOrder
  \/ BkUpdateProduct
  \/ BkDeleteProduct
  \/ HideSave(1)
  \/ BulkHideWrite(1)
  \/ DeleteSellerFind(1)
  \/ DeleteSellerSave(1)
  \/ DeleteSellerProducts(1)
  \/ DeleteSellerUser(1)
  \/ DeleteCustomerFind(1)
  \/ DeleteCustomerSave(1)
  \/ DeleteCustomerUser(1)
  \/ UpdateProductSave(1)
  \/ DeleteProductDelete(1)
  \/ Step(1)

SpecBook == InitBook /\ [][NextBook]_vars

(***************************************************************************)
(* SpecAdmin: an administrator's account removals and the requests that    *)
(* follow them, served one at a time, from one order book.                 *)
(***************************************************************************)
AcceptingAdmin == served < MaxAdminRequests

InitAdmin ==
  /\ products = BookProducts
  /\ orders = <<BookOrder(1, "pending", FALSE), BookOrder(2, "completed", FALSE),
                BookOrder(3, "preparing", FALSE)>>
  /\ Idle

\* The caller of an authenticated route has an account.
AdDeleteSeller ==
  /\ AcceptingAdmin
  /\ \E target \in users : DeleteSellerStart(1, target)

AdDeleteCustomer ==
  /\ AcceptingAdmin
  /\ \E target \in users : DeleteCustomerStart(1, target)

AdGetOrder ==
  /\ AcceptingAdmin
  /\ \E user \in users, oid \in OrderIdInputs : GetOrder(1, user, oid)

AdUpdateStatus ==
  /\ AcceptingAdmin
  /\ \E user \in users, oid \in OrderIdInputs :
        IF RoleOf(user) = "seller"
        THEN UpdateStatusStart(1, user, oid, "completed", "")
        ELSE Forbidden(1, [NoReq EXCEPT !.op = "updateStatus", !.user = user,
                                        !.oid = oid, !.status = "completed"])

AdVerifyPayment ==
  /\ AcceptingAdmin
  /\ \E user \in users, oid \in OrderIdInputs :
        IF RoleOf(user) = "seller"
        THEN VerifyPaymentStart(1, user, oid)
        ELSE Forbidden(1, [NoReq EXCEPT !.op = "verifyPayment", !.user = user,
                                        !.oid = oid])

AdArchive ==
  /\ AcceptingAdmin
  /\ \E user \in users, oid \in OrderIdInputs :
        IF RoleOf(user) = "seller"
        THEN ArchiveStart(1, user, oid, TRUE)
        ELSE Forbidden(1, [NoReq EXCEPT !.op = "archiveOrder", !.user = user,
                                        !.oid = oid, !.archive = TRUE])

AdCancel ==
  /\ AcceptingAdmin
  /\ \E user \in users, oid \in OrderIdInputs :
        IF RoleOf(user) = "customer"
        THEN CancelStart(1, user, oid, "")
        ELSE Forbidden(1, [NoReq EXCEPT !.op = "cancelOrder", !.user = user,
                                        !.oid = oid])

AdHide ==
  /\ AcceptingAdmin
  /\ \E user \in users, oid \in OrderIdInputs :
        IF RoleOf(user) = "customer"
        THEN HideStart(1, user, oid)
        ELSE Forbidden(1, [NoReq EXCEPT !.op = "hideOrder", !.user = user,
                                        !.oid = oid])

NextAdmin ==
  \/ AdDeleteSeller
  \/ AdDeleteCustomer
  \/ AdGetOrder
  \/ AdUpdateStatus
  \/ AdVerifyPayment
  \/ AdArchive
  \/ AdCancel
  \/ AdHide
  \/ DeleteSellerFind(1)
  \/ DeleteSellerSave(1)
  \/ DeleteSellerProducts(1)
  \/ DeleteSellerUser(1)
  \/ DeleteCustomerFind(1)
  \/ DeleteCustomerSave(1)
  \/ DeleteCustomerUser(1)
  \/ UpdateStatusSave(1)
  \/ VerifyPaymentSave(1)
  \/ ArchiveSave(1)
  \/ CancelFind(1)
  \/ CancelSave(1)
  \/ CancelOrderSave(1)
  \/ HideSave(1)
  \/ Finish(1)

SpecAdmin == InitAdmin /\ [][NextAdmin]_vars

(***************************************************************************)
(* SpecNotify: one checkout during which any of the four notifications may *)
(* fail: the low-stock socket event and e-mail, the new-order socket event *)
(* and e-mail.                                                             *)
(***************************************************************************)
NotificationKinds == {"low_stock", "low_stock_email", "new_order", "new_order_email"}

NfCheckout ==
  /\ served = 0
  /\ \E user \in Buyers, cart \in CartsBasic, faults \in SUBSET NotificationKinds :
        CreateOrderStart(1, user, cart, NoPay, 0, {}, faults)

NextNotify ==
  \/ NfCheckout
  \/ CreateOrderFind(1)
  \/ CreateOrderSave(1)
  \/ CreateOrderCreate(1)
  \/ Finish(1)

SpecNotify == Init /\ [][NextNotify]_vars

(***************************************************************************)
(* SpecViews: one listing request, by any principal, against a book of     *)
(* three orders with any status and any housekeeping flags.                *)
(***************************************************************************)
\* Order k of the book, archived by its seller if `archived`.
ViewOrder(k, status, hidden, archived) ==
  [BookOrder(k, status, hidden) EXCEPT !.isArchived = archived]

\* Flags are set on terminal orders only.
ViewStates(k) ==
  {ViewOrder(k, "pending", FALSE, FALSE)}
    \cup {ViewOrder(k, status, hidden, archived) :
            status \in Terminal, hidden \in BOOLEAN, archived \in BOOLEAN}

InitViews ==
  /\ products = BookProducts
  /\ orders \in {<<a, b, c>> : a \in ViewStates(1), b \in ViewStates(2),
                              c \in ViewStates(3)}
  /\ Idle

\* req.query.status: absent, "all", a status.
StatusFilters == {"", "all", "completed"}

\* req.query.archived: absent, "true", "false", any other text.
ArchivedFilters == {"", "true", "false", "all"}

VwMyOrders ==
  /\ served = 0
  /\ \E user \in Principals : GetMyOrders(1, user)

VwSellerOrders ==
  /\ served = 0
  /\ \E user \in Principals, status \in StatusFilters, archived \in ArchivedFilters :
        IF RoleOf(user) = "seller"
        THEN SellerOrdersStart(1, user, status, archived)
        ELSE Forbidden(1, [NoReq EXCEPT !.op = "getSellerOrders", !.user = user,
                                        !.status = status, !.archived = archived])

NextViews ==
  \/ VwMyOrders
  \/ VwSellerOrders
  \/ SellerOrdersAggregate(1)
  \/ SellerOrdersCount(1)
  \/ Finish(1)

SpecViews == InitViews /\ [][NextViews]_vars

(***************************************************************************)
(* SpecAnalytics: one analytics request against a book of three orders     *)
(* (two of seller s1, one of seller s2) created at any instants of the     *)
(* last fortnight and a day.                                               *)
(***************************************************************************)
\* The latest instant.
MaxTime == 31

\* How long before MaxTime an order of the book may have been created: near
\* now, near a week before, near a fortnight before.
AgeInputs == {0, 1, 2, 3, 13, 14, 15, 16, 26, 27, 28, 29, 30}

\* Order k of the book with its status and its creation instant.
AnalyticsOrder(k, status, createdAt) ==
  [BookOrder(k, status, FALSE) EXCEPT !.createdAt = createdAt]

InitAnalytics ==
  /\ products = BookProducts
  /\ orders \in {<<AnalyticsOrder(1, st[1], MaxTime - age[1]),
                    AnalyticsOrder(2, st[2], MaxTime - age[2]),
                    AnalyticsOrder(3, "completed", MaxTime - age[3])>> :
                  st \in [1..2 -> {"pending", "completed"}],
                  age \in {a \in [1..3 -> AgeInputs] : a[1] >= a[2] /\ a[2] >= a[3]}}
  /\ Idle

\* req.query: no window, a named period, or an explicit range of days.
WindowInputs ==
  {<<period, NoDate, NoDate>> : period \in {"", "all", "today", "week"}}
    \cup {<<"", DayOf(MaxTime) - back[1], DayOf(MaxTime) - back[2]>> :
            back \in {<<0, 0>>, <<1, 0>>, <<6, 0>>, <<8, 2>>}}

AnAnalytics ==
  /\ served = 0
  /\ \E user \in Principals, w \in WindowInputs, now \in {MaxTime - 1, MaxTime} :
        IF RoleOf(user) = "seller"
        THEN AnalyticsStart(1, user, w[1], w[2], w[3], now)
        ELSE Forbidden(1, [NoReq EXCEPT !.op = "getSellerAnalytics", !.user = user,
                                        !.period = w[1], !.startDate = w[2],
                                        !.endDate = w[3], !.now = now])

NextAnalytics ==
  \/ AnAnalytics
  \/ AnalyticsPrevious(1)
  \/ AnalyticsMarket(1)
  \/ Finish(1)

SpecAnalytics == InitAnalytics /\ [][NextAnalytics]_vars

(***************************************************************************)
(* SpecRace: a bulk archive or a bulk hide served by slot 1 while slot 2   *)
(* serves the seller's status updates, the two interleaving at their       *)
(* database calls.                                                         *)
(***************************************************************************)
MaxRaceRequests == 2

AcceptingRace == served < MaxRaceRequests

\* Orders 1 and 2 (seller s1, buyer b1) in any state of the book; order 3 is
\* another seller's and another buyer's.
InitRace ==
  /\ products = BookProducts
  /\ orders \in {<<a, b, BookOrder(3, "completed", FALSE)>> :
                   a \in BookStates(1), b \in BookStates(2)}
  /\ Idle

RaceBulkInputs == {<<1>>, <<2>>, <<1, 2>>}

RcBulkArchive ==
  /\ AcceptingRace
  /\ \E oids \in RaceBulkInputs, archive \in BOOLEAN :
        BulkArchiveStart(1, "s1", oids, archive)

RcBulkHide ==
  /\ AcceptingRace
  /\ \E oids \in RaceBulkInputs : BulkHideStart(1, "b1", oids)

RcUpdateStatus ==
  /\ AcceptingRace
  /\ \E oid \in 1..2, status \in {"preparing", "completed"} :
        UpdateStatusStart(2, "s1", oid, status, "")

NextRace ==
  \/ RcBulkArchive
  \/ RcBulkHide
  \/ RcUpdateStatus
  \/ BulkArchiveWrite(1)
  \/ BulkHideWrite(1)
  \/ UpdateStatusSave(2)
  \/ Finish(1)
  \/ Finish(2)

SpecRace == InitRace /\ [][NextRace]_vars

(***************************************************************************)
(* SpecStatus: the operations that write an order's status (checkout,      *)
(* status update, payment verification, customer cancellation, removal of  *)
(* the seller's account), served by two slots that interleave at their     *)
(* database calls.                                                         *)
(***************************************************************************)
MaxStatusRequests == 2

AcceptingStatus == served < MaxStatusRequests

StCreateOrder(p) ==
  /\ AcceptingStatus
  /\ CreateOrderStart(p, "b1", <<Line("pA", 1)>>, NoPay, 0, {}, {})

StUpdateStatus(p) ==
  /\ AcceptingStatus
  /\ \E oid \in 1..2, status \in StatusInputs :
        UpdateStatusStart(p, "s1", oid, status, "")

StVerifyPayment(p) ==
  /\ AcceptingStatus
  /\ \E oid \in 1..2 : VerifyPaymentStart(p, "s1", oid)

StCancel(p) ==
  /\ AcceptingStatus
  /\ \E oid \in 1..2 : CancelStart(p, "b1", oid, "")

StDeleteSeller(p) ==
  /\ AcceptingStatus
  /\ DeleteSellerStart(p, "s1")

NextStatus ==
  \E p \in Procs :
    \/ StCreateOrder(p)
    \/ StUpdateStatus(p)
    \/ StVerifyPayment(p)
    \/ StCancel(p)
    \/ StDeleteSeller(p)
    \/ CreateOrderFind(p)
    \/ CreateOrderSave(p)
    \/ CreateOrderCreate(p)
    \/ UpdateStatusSave(p)
    \/ VerifyPaymentSave(p)
    \/ CancelFind(p)
    \/ CancelSave(p)
    \/ CancelOrderSave(p)
    \/ DeleteSellerFind(p)
    \/ DeleteSellerSave(p)
    \/ DeleteSellerProducts(p)
    \/ DeleteSellerUser(p)
    \/ Finish(p)

SpecStatus == InitAdmin /\ [][NextStatus]_vars


(***************************************************************************)
(* Claims.                                                                 *)
(***************************************************************************)
\* Slot p serves a checkout of a one-line cart for product id.
CheckoutLine(p, id) ==
  /\ req[p].op = "createOrder"
  /\ Len(req[p].cart) = 1
  /\ req[p].cart[1].productId = id

\* Both slots have answered a one-line checkout of product id, each after
\* passing the availability check on a read of the same on-hand quantity.
BothPassedOnSameRead(id) ==
  /\ \A p \in Procs : CheckoutLine(p, id) /\ pc[p] = "done" /\ loc[p].rdoc.exists
  /\ loc[1].rdoc.quantity = loc[2].rdoc.quantity

\* C1: two checkouts of the same product that both passed the availability
\* check on the same on-hand quantity both succeed: each answers 201 and has
\* created its order with the quantity it asked for, and the stored quantity
\* is the one written last (the quantity read minus one request's quantity),
\* not the quantity read minus both.
C1_RacingCheckoutsBothSucceed ==
  \A id \in ProductIds :
    BothPassedOnSameRead(id) =>
      /\ \A p \in Procs :
           /\ resp[p] = 201
           /\ Len(loc[p].created) = 1
           /\ orders[loc[p].created[1]].items[1].quantity = req[p].cart[1].quantity
      /\ products[id].quantity \in
           {loc[p].rdoc.quantity - req[p].cart[1].quantity : p \in Procs}

\* C1 witness: both checkouts succeeded although together they asked for more
\* than the quantity that was on hand.
C1_Oversold ==
  /\ BothPassedOnSameRead("pA")
  /\ \A p \in Procs : resp[p] = 201
  /\ req[1].cart[1].quantity + req[2].cart[1].quantity > loc[1].rdoc.quantity
  /\ loc[1].created # loc[2].created

\* C4: under every interleaving of checkouts, customer cancellations and
\* seller product updates and deletions, no product's on-hand quantity is
\* negative.
C4_StockNonNegative ==
  \A id \in ProductIds : products[id].quantity >= 0

\* C4 witness: a checkout has passed the availability check and is about to
\* write its decrement while the stored quantity has already fallen below the
\* quantity it asked for.
C4_StaleCheckPending ==
  \E p \in Procs :
    /\ pc[p] = "co_save"
    /\ products["pA"].exists
    /\ req[p].cart[loc[p].i].productId = "pA"
    /\ products["pA"].quantity < req[p].cart[loc[p].i].quantity


RECURSIVE CartPasses(_, _)
\* Every line of the cart is found and available, each line seeing the stock
\* the lines before it leave.
CartPasses(cart, catalogue) ==
  IF cart = <<>> THEN TRUE
  ELSE LET line == Head(cart)
           product == catalogue[line.productId]
       IN /\ product.exists
          /\ product.isAvailable
          /\ product.quantity >= line.quantity
          /\ CartPasses(Tail(cart),
                        [catalogue EXCEPT ![line.productId].quantity = @ - line.quantity])

RECURSIVE LinesOf(_, _, _)
\* The line snapshots of the cart's lines whose product is sold by seller.
LinesOf(cart, catalogue, seller) ==
  IF cart = <<>> THEN <<>>
  ELSE LET line == Head(cart)
           rest == LinesOf(Tail(cart), catalogue, seller)
       IN IF catalogue[line.productId].seller = seller
          THEN <<[product |-> line.productId,
                  price |-> catalogue[line.productId].price,
                  quantity |-> line.quantity]>> \o rest
          ELSE rest

CartSellers(cart, catalogue) ==
  {catalogue[cart[k].productId].seller : k \in 1..Len(cart)}

\* The orders slot p's checkout added are exactly one per seller of the cart,
\* each with that seller's lines only and their sum as its total.
SplitCorrect(p) ==
  LET cart == req[p].cart
      catalogue == pre[p].products
      added == {k \in 1..Len(orders) : k > Len(pre[p].orders)}
  IN /\ Cardinality(added) = Cardinality(CartSellers(cart, catalogue))
     /\ \A k \in added :
          /\ orders[k].buyer = req[p].user
          /\ orders[k].seller \in CartSellers(cart, catalogue)
          /\ orders[k].items = LinesOf(cart, catalogue, orders[k].seller)
          /\ orders[k].total = SumLines(orders[k].items)
     /\ \A k, m \in added : orders[k].seller = orders[m].seller => k = m

\* Slot p's checkout has been answered and every line of its cart was found
\* and available.
CheckedOut(p) ==
  /\ req[p].op = "createOrder"
  /\ pc[p] = "done"
  /\ CartPasses(req[p].cart, pre[p].products)

\* The orders of the cart pass the Order schema: every quantity at least 1,
\* every named payment method qr or cod, the note within its length.
CartValid(p) ==
  /\ \A k \in 1..Len(req[p].cart) : req[p].cart[k].quantity >= ItemQuantityMin
  /\ \A sl \in CartSellers(req[p].cart, pre[p].products) :
       req[p].pay[sl] \in PaymentEnum \cup {""}
  /\ req[p].noteLen <= NotesMaxLength

\* C2 (as stated): for every cart whose lines are all found and available,
\* the checkout creates exactly one order per distinct seller of the cart,
\* each with that seller's lines only and a total equal to the sum of
\* price x quantity over its lines.
C2_SplitForEveryAvailableCart ==
  CheckedOut(1) => SplitCorrect(1)

\* C2 (amended): the same for every cart whose lines are all found and
\* available and whose orders pass the Order schema (every requested quantity
\* at least 1, every named payment method qr or cod, a note of at most 500
\* characters); the request then answers 201.
C2_SplitForEveryValidCart ==
  (CheckedOut(1) /\ CartValid(1)) =>
     /\ SplitCorrect(1)
     /\ Len(req[1].cart) > 0 => resp[1] = 201

\* C2 witness: a two-line cart over two sellers was answered 201 with two
\* orders created.
C2_TwoSellersTwoOrders ==
  /\ CheckedOut(1) /\ CartValid(1)
  /\ resp[1] = 201
  /\ Len(req[1].cart) = 2
  /\ Cardinality(CartSellers(req[1].cart, pre[1].products)) = 2
  /\ Len(orders) = 2

RECURSIVE Requested(_, _)
\* The quantity the lines of a cart ask of product id.
Requested(cart, id) ==
  IF cart = <<>> THEN 0
  ELSE (IF Head(cart).productId = id THEN Head(cart).quantity ELSE 0)
         + Requested(Tail(cart), id)

\* Slot p's checkout was answered NotFound or InsufficientStock at line k.
FailedAtLine(p, k) ==
  /\ req[p].op = "createOrder"
  /\ pc[p] = "done"
  /\ resp[p] \in {400, 404}
  /\ Len(req[p].cart) > 0
  /\ loc[p].i = k

\* C5: when line k of a cart fails with NotFound or InsufficientStock, no
\* order has been created, and each product's quantity is its quantity before
\* the request minus what lines 1..k-1 asked of it: the earlier decrements
\* stay applied.
C5_AbortKeepsEarlierDecrements ==
  \A k \in 1..MaxCart :
    FailedAtLine(1, k) =>
      /\ orders = pre[1].orders
      /\ \A id \in ProductIds :
           products[id].exists =>
             products[id].quantity =
               pre[1].products[id].quantity
                 - Requested(SubSeq(req[1].cart, 1, k - 1), id)

\* C5 witness: the second line failed after the first line took stock.
C5_SecondLineFailed ==
  /\ FailedAtLine(1, 2)
  /\ req[1].cart[1].quantity >= 1
  /\ products[req[1].cart[1].productId].quantity
       < pre[1].products[req[1].cart[1].productId].quantity


\* Slot p has answered a request of handler op that names an order that
\* existed when the request arrived.
Answered(p, op) ==
  /\ req[p].op = op
  /\ pc[p] = "done"
  /\ req[p].oid \in 1..Len(pre[p].orders)

\* The order a request of slot p names, as it was when the request arrived,
\* and as it is now.
Before(p) == pre[p].orders[req[p].oid]

Now(p) == orders[req[p].oid]

\* The order was cancelled by its customer at some time before.
CancelledByCustomerBefore(order) ==
  \E k \in 1..Len(order.statusHistory) :
    order.statusHistory[k].note
      \in {"Cancelled by customer", "Cancelled by customer. Reason"}

\* A successful cancellation has added each line's quantity to its product,
\* once.
RestoredOnce(p) ==
  \A id \in ProductIds :
    products[id].exists =>
      products[id].quantity
        = pre[p].products[id].quantity + SumQty(Before(p).items, id)

\* C3 (as stated): a successful cancelByCustomer adds each line's quantity to
\* its product exactly once, and a second cancelByCustomer on the same order
\* is rejected as InvalidState and changes no product quantity.
C3_CancelRestoresOnceAndOnlyOnce ==
  (Answered(1, "cancelOrder") /\ Before(1).buyer = req[1].user) =>
     /\ resp[1] = 200 => RestoredOnce(1)
     /\ CancelledByCustomerBefore(Before(1)) =>
          resp[1] = 400 /\ products = pre[1].products

\* C6: cancelByCustomer by the order's buyer succeeds exactly when the status
\* is pending or confirmed, and then the order is cancelled; on every other
\* status it is rejected, and the orders (status and history included) and
\* the products are as they were.
C6_CancelOnlyFromPendingOrConfirmed ==
  (Answered(1, "cancelOrder") /\ Before(1).buyer = req[1].user) =>
     IF Before(1).status \in {"pending", "confirmed"}
     THEN resp[1] = 200 /\ Now(1).status = "cancelled"
     ELSE resp[1] = 400 /\ orders = pre[1].orders /\ products = pre[1].products

\* C6 witness: the buyer's cancellation of a completed order was rejected.
C6_CancelOfCompletedRejected ==
  /\ Answered(1, "cancelOrder")
  /\ Before(1).buyer = req[1].user
  /\ Before(1).status = "completed"
  /\ resp[1] = 400

\* C7: updateStatus by the order's seller does not look at the current
\* status: every target among pending, preparing, completed and cancelled is
\* accepted from every current status and becomes the status, with one
\* history entry appended; any other target is rejected 400 and the order is
\* as it was.
C7_StatusUpdateIgnoresCurrentStatus ==
  (Answered(1, "updateStatus") /\ Before(1).seller = req[1].user) =>
     IF req[1].status \in {"pending", "preparing", "completed", "cancelled"}
     THEN /\ resp[1] = 200
          /\ Now(1).status = req[1].status
          /\ Len(Now(1).statusHistory) = Len(Before(1).statusHistory) + 1
          /\ Now(1).statusHistory[Len(Now(1).statusHistory)].status = req[1].status
     ELSE resp[1] = 400 /\ orders = pre[1].orders

\* C7 witness: the seller moved an order out of a terminal status.
C7_MovedOutOfTerminal ==
  /\ Answered(1, "updateStatus")
  /\ Before(1).status \in {"completed", "cancelled"}
  /\ resp[1] = 200
  /\ Now(1).status \in {"pending", "preparing"}

\* C8: verifyPayment by the order's seller succeeds from every status and
\* whether or not the payment was verified before; afterwards the payment is
\* verified, the status is preparing, and one history entry with status
\* preparing has been appended.
C8_VerifyPaymentForcesPreparing ==
  (Answered(1, "verifyPayment") /\ Before(1).seller = req[1].user) =>
     /\ resp[1] = 200
     /\ Now(1).isPaymentVerified
     /\ Now(1).status = "preparing"
     /\ Len(Now(1).statusHistory) = Len(Before(1).statusHistory) + 1
     /\ SubSeq(Now(1).statusHistory, 1, Len(Before(1).statusHistory))
          = Before(1).statusHistory
     /\ Now(1).statusHistory[Len(Now(1).statusHistory)].status = "preparing"

\* C8 witness: the payment of an order was verified a second time.
C8_VerifiedAgain ==
  /\ Answered(1, "verifyPayment")
  /\ Before(1).seller = req[1].user
  /\ Before(1).isPaymentVerified
  /\ resp[1] = 200

\* C9: archiveOrder by the order's seller, to archive and to unarchive, is
\* accepted exactly when the status is completed or cancelled, and then sets
\* the flag; on any other status it is rejected 400 and the orders are as they
\* were.
C9_ArchiveOnlyWhenTerminal ==
  (Answered(1, "archiveOrder") /\ Before(1).seller = req[1].user) =>
     IF Before(1).status \in {"completed", "cancelled"}
     THEN resp[1] = 200 /\ Now(1).isArchived = req[1].archive
     ELSE resp[1] = 400 /\ orders = pre[1].orders

\* C9 witness: a request to unarchive an order that is still pending was
\* rejected.
C9_UnarchiveOfPendingRejected ==
  /\ Answered(1, "archiveOrder")
  /\ Before(1).seller = req[1].user
  /\ ~req[1].archive
  /\ Before(1).status = "pending"
  /\ resp[1] = 400

\* Slot p has answered a bulkArchive request that names at least one order.
BulkAnswered(p) ==
  /\ req[p].op = "bulkArchive"
  /\ pc[p] = "done"
  /\ Len(req[p].oids) > 0

\* The targets of the bulk request of slot p.
Targets(p) == Range(req[p].oids)

\* Every target existed and belonged to the requesting seller when the request
\* arrived.
AllOwned(p) ==
  \A i \in Targets(p) :
    i \in 1..Len(pre[p].orders) /\ pre[p].orders[i].seller = req[p].user

\* Every target that existed was completed or cancelled when the request
\* arrived.
AllTerminal(p) ==
  \A i \in Targets(p) :
    i \in 1..Len(pre[p].orders) =>
      pre[p].orders[i].status \in {"completed", "cancelled"}

\* No order id is named twice.
NoRepeat(p) ==
  \A j, k \in 1..Len(req[p].oids) :
    req[p].oids[j] = req[p].oids[k] => j = k

\* The request was rejected and no order changed.
BulkRejected(p) == resp[p] \in {400, 403} /\ orders = pre[p].orders

\* The request was accepted: every target carries the requested flag and
\* nothing else changed.
BulkApplied(p) ==
  /\ resp[p] = 200
  /\ Len(orders) = Len(pre[p].orders)
  /\ \A i \in 1..Len(orders) :
       orders[i] = IF i \in Targets(p)
                   THEN [pre[p].orders[i] EXCEPT !.isArchived = req[p].archive]
                   ELSE pre[p].orders[i]

C20_AbortDeletesUploads ==
  (req[1].op = "createOrder" /\ pc[1] = "done" /\ resp[1] # 201) =>
     files[1] = {}

\* The listed orders that belonged to the caller and were completed or
\* cancelled when the bulk request of slot p arrived.
Eligible(p) ==
  {i \in 1..Len(pre[p].orders) :
     /\ i \in Targets(p)
     /\ pre[p].orders[i].buyer = req[p].user
     /\ pre[p].orders[i].status \in {"completed", "cancelled"}}

\* C11: a bulkHideForBuyer naming at least one id succeeds whatever the ids
\* match: exactly the listed orders that are the caller's and completed or
\* cancelled get isHiddenByBuyer, every other order is unchanged, and the
\* count returned is the number of orders the update wrote (those same
\* orders, one already hidden included).
C11_BulkHideSkipsSilently ==
  (req[1].op = "bulkHide" /\ pc[1] = "done" /\ Len(req[1].oids) > 0) =>
     /\ resp[1] = 200
     /\ Len(orders) = Len(pre[1].orders)
     /\ \A i \in 1..Len(orders) :
          orders[i] = IF i \in Eligible(1)
                      THEN [pre[1].orders[i] EXCEPT !.isHiddenByBuyer = TRUE]
                      ELSE pre[1].orders[i]
     /\ loc[1].count = Cardinality(Eligible(1))
     /\ products = pre[1].products

\* C11 witness: three completed or cancelled orders were listed, one of them
\* another buyer's, and the count returned is 2.
C11_TwoOfThreeHidden ==
  /\ req[1].op = "bulkHide"
  /\ pc[1] = "done"
  /\ Cardinality(Targets(1)) = 3
  /\ \A i \in Targets(1) :
       /\ i \in 1..Len(pre[1].orders)
       /\ pre[1].orders[i].status \in {"completed", "cancelled"}
  /\ Cardinality({i \in Targets(1) : pre[1].orders[i].buyer # req[1].user}) = 1
  /\ resp[1] = 200
  /\ loc[1].count = 2

\* C12: hideForBuyer by the order's buyer sets isHiddenByBuyer, and nothing
\* else, when the status is completed or cancelled; on any other status it is
\* rejected 400 and no order changes.
C12_HideOnlyWhenTerminal ==
  (Answered(1, "hideOrder") /\ Before(1).buyer = req[1].user) =>
     IF Before(1).status \in {"completed", "cancelled"}
     THEN /\ resp[1] = 200
          /\ orders = [pre[1].orders EXCEPT ![req[1].oid].isHiddenByBuyer = TRUE]
     ELSE resp[1] = 400 /\ orders = pre[1].orders

\* C12 witness: the buyer's request to hide an order in preparation was
\* rejected.
C12_HideOfPreparingRejected ==
  /\ Answered(1, "hideOrder")
  /\ Before(1).buyer = req[1].user
  /\ Before(1).status = "preparing"
  /\ resp[1] = 400
  /\ ~Now(1).isHiddenByBuyer

\* Slot p has answered the removal of an account with success.
Removed(p, op) == req[p].op = op /\ pc[p] = "done" /\ resp[p] = 200

\* Order i was cancelled by the cascade and is otherwise as it was: its status
\* is cancelled and one entry, with status cancelled and the note of the
\* system, follows its earlier history.
CascadeCancelled(p, i, note) ==
  orders[i] = [pre[p].orders[i] EXCEPT
                 !.status = "cancelled",
                 !.statusHistory = Append(@, [status |-> "cancelled", note |-> note])]

\* No product has more stock than when the request of slot p arrived.
NoStockAdded(p) ==
  \A id \in ProductIds : products[id].quantity <= pre[p].products[id].quantity

\* C13: after the removal of a seller account, each order of that seller that
\* was pending, confirmed, preparing or ready is cancelled with exactly one
\* history entry appended, written by the system; that seller's completed and
\* cancelled orders and the orders of every other seller are unchanged; no
\* product quantity has increased.
C13_SellerRemovalCancelsActiveOrders ==
  Removed(1, "deleteSeller") =>
     /\ Len(orders) = Len(pre[1].orders)
     /\ \A i \in 1..Len(orders) :
          IF /\ pre[1].orders[i].seller = req[1].target
             /\ pre[1].orders[i].status \in {"pending", "confirmed", "preparing", "ready"}
          THEN CascadeCancelled(1, i, "Order cancelled - seller account was removed")
          ELSE orders[i] = pre[1].orders[i]
     /\ NoStockAdded(1)

\* C13 witness: a seller was removed who had one order pending, one in
\* preparation or finished, while another seller had an order pending.
C13_SellerWithActiveOrdersRemoved ==
  /\ Removed(1, "deleteSeller")
  /\ req[1].target = "s1"
  /\ pre[1].orders[1].status = "pending"
  /\ pre[1].orders[2].status = "preparing"
  /\ pre[1].orders[3].status = "pending"
  /\ orders[1].status = "cancelled"
  /\ orders[2].status = "cancelled"
  /\ orders[3].status = "pending"

\* C14 (as stated): after the removal of a customer account, each order whose
\* buyer is that customer and that was pending, confirmed, preparing or ready
\* is cancelled with exactly one history entry appended, written by the
\* system; the orders of every other buyer are unchanged; no product quantity
\* has changed.
C14_CustomerRemovalCancelsTheirOrders ==
  Removed(1, "deleteCustomer") =>
     /\ Len(orders) = Len(pre[1].orders)
     /\ \A i \in 1..Len(orders) :
          IF pre[1].orders[i].buyer # req[1].target
          THEN orders[i] = pre[1].orders[i]
          ELSE pre[1].orders[i].status
                 \in {"pending", "confirmed", "preparing", "ready"} =>
               CascadeCancelled(1, i, "Order cancelled - customer account was removed")
     /\ products = pre[1].products

\* The total of every order is the sum of price x quantity over its lines.
TotalsMatchLines ==
  \A i \in 1..Len(orders) : orders[i].total = SumLines(orders[i].items)

\* A step keeps every order that exists, with its lines and its total.
SnapshotsKept ==
  /\ Len(orders') >= Len(orders)
  /\ \A i \in 1..Len(orders) :
       /\ orders'[i].items = orders[i].items
       /\ orders'[i].total = orders[i].total

\* C15: no step of any handler (product update, updateStatus, verifyPayment,
\* cancel, archive, hide, account removal, a later checkout) changes the line
\* snapshots or the total of an order that exists, and in every reachable
\* state each order's total is the sum of price x quantity over its lines.
C15_SnapshotsImmutable == []TotalsMatchLines /\ [][SnapshotsKept]_vars

\* C15 witness: the seller has raised the price of a product that an order
\* holds a line of, and the line keeps the price it was ordered at.
C15_PriceChangedAfterOrder ==
  /\ req[1].op = "updateProduct"
  /\ pc[1] = "done"
  /\ resp[1] = 200
  /\ orders[1].items[1].product = "pA"
  /\ products["pA"].price > orders[1].items[1].price
  /\ orders[1].total = pre[1].orders[1].total

\* C16: after a createOrder that succeeded with no other request running,
\* every product holds its quantity of before minus the total quantity the
\* cart asked of it (nothing for a product that is not in the cart), and is
\* otherwise as it was.
C16_StockDecrementedByCart ==
  (req[1].op = "createOrder" /\ pc[1] = "done" /\ resp[1] = 201) =>
     \A id \in ProductIds :
       products[id] = [pre[1].products[id] EXCEPT
                         !.quantity = @ - Requested(req[1].cart, id)]

\* C16 witness: a successful checkout of a cart with two lines of one product
\* and, in the catalogue, stock of another product it does not name.
C16_TwoLinesOfOneProduct ==
  /\ req[1].op = "createOrder"
  /\ pc[1] = "done"
  /\ resp[1] = 201
  /\ Len(req[1].cart) = 2
  /\ Requested(req[1].cart, "pA") = 2
  /\ products["pA"].quantity = pre[1].products["pA"].quantity - 2
  /\ products["pB"].quantity = pre[1].products["pB"].quantity
  /\ products["pB"].quantity > 0

\* An order as it must be when created.
Fresh(order) ==
  /\ order.status = "pending"
  /\ ~order.isPaymentVerified
  /\ ~order.isArchived
  /\ ~order.isHiddenByBuyer
  /\ order.statusHistory = <<[status |-> "pending", note |-> "Order placed"]>>

\* C17: every order a step adds to the collection is pending, not payment
\* verified, not archived, not hidden, and has a history of exactly one entry,
\* with status pending and note "Order placed".
C17_OrdersStartPending ==
  [][\A i \in (Len(orders) + 1)..Len(orders') : Fresh(orders'[i])]_vars

\* C17 witness: an order was placed after an earlier order had been
\* completed.
C17_PlacedAfterCompleted ==
  /\ req[1].op = "createOrder"
  /\ pc[1] = "done"
  /\ resp[1] = 201
  /\ Len(orders) = 2
  /\ orders[1].status = "completed"
  /\ Fresh(orders[2])

\* The history of order i now is its history when the request of slot p
\* arrived, followed by exactly one entry, whose status is the order's status.
OneEntryAppended(p, i) ==
  LET h == orders[i].statusHistory
  IN /\ h = Append(pre[p].orders[i].statusHistory, h[Len(h)])
     /\ h[Len(h)].status = orders[i].status

\* The history of order i is as it was when the request of slot p arrived.
HistoryKept(p, i) == orders[i].statusHistory = pre[p].orders[i].statusHistory

\* What an answered request has done to the histories of the orders that
\* existed when it arrived.
HistoryAtDone(p) ==
  \A i \in 1..Len(pre[p].orders) :
    IF resp[p] >= 400 THEN HistoryKept(p, i)
    ELSE IF req[p].op \in {"updateStatus", "verifyPayment", "cancelOrder"}
    THEN IF i = req[p].oid THEN OneEntryAppended(p, i) ELSE HistoryKept(p, i)
    ELSE IF req[p].op \in {"deleteSeller", "deleteCustomer"}
    THEN IF orders[i].status # pre[p].orders[i].status
         THEN OneEntryAppended(p, i) /\ orders[i].status = "cancelled"
         ELSE HistoryKept(p, i)
    ELSE HistoryKept(p, i)

\* A step removes and alters no entry of any history, and appends at most one
\* entry to it, with the status the order then has.
HistoryGrows ==
  /\ Len(orders') >= Len(orders)
  /\ \A i \in 1..Len(orders) :
       LET h == orders[i].statusHistory
           g == orders'[i].statusHistory
       IN /\ Len(g) \in {Len(h), Len(h) + 1}
          /\ SubSeq(g, 1, Len(h)) = h
          /\ Len(g) = Len(h) + 1 => g[Len(g)].status = orders'[i].status
          /\ orders'[i].status # orders[i].status => Len(g) = Len(h) + 1

\* C18: the status history is append-only: a successful updateStatus,
\* verifyPayment or cancelByCustomer appends exactly one entry, with the
\* order's new status, to the order it names; an account removal appends
\* exactly one cancelled entry to each order it cancels; no step removes or
\* alters an earlier entry; rejected requests, archive, hide and every other
\* handler append nothing.
C18_HistoryAppendOnly ==
  [](pc[1] = "done" => HistoryAtDone(1)) /\ [][HistoryGrows]_vars

\* C18 witness: the seller has reopened a completed order, whose history of
\* two entries has a third, pending.
C18_ThirdEntryAppended ==
  /\ Answered(1, "updateStatus")
  /\ resp[1] = 200
  /\ Before(1).status = "completed"
  /\ Len(Before(1).statusHistory) = 2
  /\ Len(Now(1).statusHistory) = 3
  /\ Now(1).statusHistory[3].status = "pending"
  /\ Now(1).statusHistory[2] = Before(1).statusHistory[2]

\* The caller of the request slot p has answered is neither the party of the
\* order the handler requires (its seller for updateStatus, verifyPayment and
\* archiveOrder, its buyer for cancelByCustomer and hideForBuyer) nor, for
\* getOrder, its buyer or its seller.
CallerIsStranger(p) ==
  \/ /\ req[p].op \in {"updateStatus", "verifyPayment", "archiveOrder"}
     /\ Before(p).seller # req[p].user
  \/ /\ req[p].op \in {"cancelOrder", "hideOrder"}
     /\ Before(p).buyer # req[p].user
  \/ /\ req[p].op = "getOrder"
     /\ Before(p).buyer # req[p].user
     /\ Before(p).seller # req[p].user

OrderOps ==
  {"updateStatus", "verifyPayment", "archiveOrder", "cancelOrder", "hideOrder",
   "getOrder"}

\* C19 (as stated): a well-formed call of updateStatus, verifyPayment, archiveOrder,
\* cancelByCustomer, hideForBuyer or getOrder by a principal who is not the
\* party the handler requires is rejected as Unauthorized (403), and the
\* orders and the products are as they were; a call that took effect, or
\* returned the order, came from the required party.
C19_OnlyPartiesAct ==
  (/\ pc[1] = "done"
   /\ req[1].op \in OrderOps
   /\ req[1].oid \in 1..Len(pre[1].orders)
   /\ req[1].op = "updateStatus" =>
        req[1].status \in {"pending", "preparing", "completed", "cancelled"}) =>
     /\ CallerIsStranger(1) =>
          resp[1] = 403 /\ orders = pre[1].orders /\ products = pre[1].products
     /\ resp[1] = 200 => ~CallerIsStranger(1)

(***************************************************************************)
(* C21: notification failures during createOrder.                          *)
(***************************************************************************)
\* C21: a failure of the notification collaborator during createOrder (the
\* low-stock socket event or e-mail, the new-order socket event or e-mail)
\* never changes the request's outcome: a cart whose lines are all found,
\* available and valid is answered 201 with one order per seller, whichever
\* notifications fail.
C21_NotificationFailureNeverSurfaces ==
  (CheckedOut(1) /\ CartValid(1) /\ req[1].faults # {}) =>
     /\ resp[1] = 201
     /\ SplitCorrect(1)

\* C21 (the part that holds): failures of the low-stock e-mail, the new-order
\* socket event and the new-order e-mail are swallowed.
C21_SwallowedFailures ==
  (CheckedOut(1) /\ CartValid(1) /\ "low_stock" \notin req[1].faults) =>
     /\ resp[1] = 201
     /\ SplitCorrect(1)

\* C21 witness of the swallowed part: a checkout answered 201 although the
\* three swallowed notifications all failed.
C21_AnsweredDespiteFailures ==
  /\ CheckedOut(1)
  /\ req[1].faults = NotificationKinds \ {"low_stock"}
  /\ resp[1] = 201
  /\ Len(orders) = 2

(***************************************************************************)
(* C22: the housekeeping flags and the two listings.                       *)
(***************************************************************************)
\* The books that differ from `book` in isHiddenByBuyer only.
HiddenVariants(book) ==
  {[k \in 1..Len(book) |-> [book[k] EXCEPT !.isHiddenByBuyer = h[k]]] :
     h \in [1..Len(book) -> BOOLEAN]}

\* The books that differ from `book` in isArchived only.
ArchivedVariants(book) ==
  {[k \in 1..Len(book) |-> [book[k] EXCEPT !.isArchived = h[k]]] :
     h \in [1..Len(book) -> BOOLEAN]}

\* The ids a listing names.
Listed(view) == {view.orders[k] : k \in 1..Len(view.orders)}

\* What a seller is to see of a book under the filters of the request: the
\* ids of their orders that pass the filters, and the counts by status of
\* their orders that are not archived, and of those that are.
SellerViewOf(book, user, status, archived) ==
  [ids |-> {k \in 1..Len(book) :
              /\ book[k].seller = user
              /\ status \in {"", "all"} \/ book[k].status = status
              /\ \/ archived = "true" /\ book[k].isArchived
                 \/ archived \in {"false", ""} /\ ~book[k].isArchived
                 \/ archived \notin {"true", "false", ""}},
   counts |-> [s \in StatusEnum \cup {"archived"} |->
                 IF s = "archived"
                 THEN Cardinality({k \in 1..Len(book) :
                        book[k].seller = user /\ book[k].isArchived})
                 ELSE Cardinality({k \in 1..Len(book) :
                        /\ book[k].seller = user
                        /\ ~book[k].isArchived
                        /\ book[k].status = s})]]

\* C22: getMyOrders lists exactly the caller's orders whose isHiddenByBuyer
\* is not set, whatever their isArchived value (the listing is the same for
\* every book that differs in isArchived only); the orders getSellerOrders
\* lists and its status counts are the same for every book that differs in
\* isHiddenByBuyer only.
C22_FlagsDoNotLeakAcrossViews ==
  /\ (pc[1] = "done" /\ req[1].op = "getMyOrders") =>
       /\ \A book \in ArchivedVariants(pre[1].orders) :
            Listed(loc[1].view) =
              {k \in 1..Len(book) :
                 book[k].buyer = req[1].user /\ ~book[k].isHiddenByBuyer}
       /\ loc[1].view.count = Cardinality(Listed(loc[1].view))
  /\ (pc[1] = "done" /\ req[1].op = "getSellerOrders" /\ resp[1] = 200) =>
       \A book \in HiddenVariants(pre[1].orders) :
         LET view == SellerViewOf(book, req[1].user, req[1].status, req[1].archived)
         IN /\ Listed(loc[1].view) = view.ids
            /\ loc[1].view.count = Cardinality(view.ids)
            /\ loc[1].view.statusCounts = view.counts

\* C22 witness: a seller whose two orders are both hidden by their buyer, one
\* of them archived, lists the unarchived one.
C22_SellerSeesHiddenOrder ==
  /\ pc[1] = "done" /\ req[1].op = "getSellerOrders" /\ resp[1] = 200
  /\ req[1].user = "s1" /\ req[1].archived = ""
  /\ orders[1].isHiddenByBuyer /\ orders[2].isHiddenByBuyer
  /\ orders[1].isArchived /\ ~orders[2].isArchived
  /\ loc[1].view.orders = <<2>>

(***************************************************************************)
(* C23: the empty cart.                                                    *)
(***************************************************************************)
\* Slot p holds a checkout whose items are an empty array or missing.
EmptyCheckout(p) ==
  /\ req[p].op = "createOrder"
  /\ req[p].cart = <<>>
  /\ req[p].note # "invalid items"

\* C23: createOrder with an empty or missing cart is rejected as a validation
\* error (400) before any stock mutation: the handler reads and saves no
\* product, no product quantity changes and no order is created.
C23_EmptyCartRejectedBeforeStock ==
  EmptyCheckout(1) =>
     /\ pc[1] = "done"
     /\ resp[1] = 400
     /\ products = pre[1].products
     /\ orders = pre[1].orders

\* C23 witness: a checkout with no items was answered while the catalogue
\* holds stock of both products.
C23_MissingCartAnswered ==
  /\ EmptyCheckout(1)
  /\ req[1].note = "missing items"
  /\ pc[1] = "done"
  /\ products["pA"].quantity > 0 /\ products["pB"].quantity > 0

(***************************************************************************)
(* C24, C25, C26: the analytics report.                                    *)
(***************************************************************************)
\* Slot 1 has answered an analytics request of a seller.
Reported == pc[1] = "done" /\ req[1].op = "getSellerAnalytics" /\ resp[1] = 200

\* The completed orders of the caller created from instant `from` to instant
\* `to`, both included.
CompletedWithin(from, to) ==
  {k \in 1..Len(orders) :
     /\ orders[k].seller = req[1].user
     /\ orders[k].status = "completed"
     /\ orders[k].createdAt >= from
     /\ orders[k].createdAt <= to}

\* C24: for period = week the revenue of the report equals the sum of total
\* over the caller's completed orders created in [now - 7 days, now]; other
\* sellers' orders, orders that are not completed and orders created before
\* now - 7 days contribute nothing.
C24_WeekRevenueOfLastSevenDays ==
  (Reported /\ req[1].period = "week") =>
     loc[1].report.totalRevenue =
       Revenue(orders, CompletedWithin(req[1].now - 7 * DayLength, req[1].now))

\* C24 (what the code computes): the window starts at the midnight that began
\* today, minus seven days.
C24_WeekRevenueFromMidnight ==
  (Reported /\ req[1].period = "week") =>
     loc[1].report.totalRevenue =
       Revenue(orders, CompletedWithin(StartOfDay(req[1].now) - 7 * DayLength,
                                       req[1].now))

\* The first and last instant of the requested window: the explicit range,
\* or the period's number of days up to now.
WindowStart ==
  IF req[1].startDate # NoDate THEN req[1].startDate * DayLength
  ELSE req[1].now - PeriodDays(req[1].period) * DayLength

WindowEnd ==
  IF req[1].startDate # NoDate THEN req[1].endDate * DayLength + (DayLength - 1)
  ELSE req[1].now

\* The revenue of the requested window and of the window of equal length
\* that ends where the requested one starts.
WindowRevenue == Revenue(orders, CompletedWithin(WindowStart, WindowEnd))

\* Its length: the days of the range, or of the period.
WindowLength ==
  IF req[1].startDate # NoDate
  THEN (req[1].endDate - req[1].startDate + 1) * DayLength
  ELSE PeriodDays(req[1].period) * DayLength

PrecedingRevenue ==
  Revenue(orders, CompletedWithin(WindowStart - WindowLength, WindowStart - 1))

\* C25: for an explicit date range and for a named period, the revenue delta
\* of the report is the percentage change from the completed revenue of the
\* window of equal length immediately before the requested window to the
\* completed revenue of the requested window, and 0 when the preceding window
\* has no completed revenue.
C25_DeltaAgainstPrecedingWindow ==
  (Reported /\ (req[1].startDate # NoDate \/ req[1].period \in {"today", "week"})) =>
     loc[1].report.revenueChange =
       IF PrecedingRevenue > 0
       THEN Round((WindowRevenue - PrecedingRevenue) * 1000, PrecedingRevenue)
       ELSE 0

\* C25, named periods only.
C25_DeltaOfNamedPeriod ==
  (Reported /\ req[1].period \in {"today", "week"}) =>
     loc[1].report.revenueChange =
       IF PrecedingRevenue > 0
       THEN Round((WindowRevenue - PrecedingRevenue) * 1000, PrecedingRevenue)
       ELSE 0

\* C26: the daily series of the report always covers the last 14 calendar
\* days as of now, and for each of them its order count and revenue are the
\* count and total of the caller's completed orders created on that day,
\* whichever period or range was requested.
C26_SeriesIndependentOfPeriod ==
  Reported =>
     /\ Len(loc[1].report.salesOverTime) = 14
     /\ \A j \in 1..14 :
          LET entry == loc[1].report.salesOverTime[j]
              date == DayOf(req[1].now) - (14 - j)
              onDay == CompletedWithin(date * DayLength,
                                       date * DayLength + (DayLength - 1))
          IN /\ entry.date = date
             /\ entry.orders = Cardinality(onDay)
             /\ entry.revenue = Revenue(orders, onDay)

\* C26, for requests that name no window.
C26_SeriesOfAllTime ==
  (Reported /\ req[1].startDate = NoDate /\ req[1].period \in {"", "all"}) =>
     /\ Len(loc[1].report.salesOverTime) = 14
     /\ \A j \in 1..14 :
          LET entry == loc[1].report.salesOverTime[j]
              date == DayOf(req[1].now) - (14 - j)
              onDay == CompletedWithin(date * DayLength,
                                       date * DayLength + (DayLength - 1))
          IN /\ entry.date = date
             /\ entry.orders = Cardinality(onDay)
             /\ entry.revenue = Revenue(orders, onDay)

(***************************************************************************)
(* C27: stock conservation over sequences of order operations.             *)
(***************************************************************************)
RECURSIVE Committed(_, _)
\* The quantity of product id on the lines of the orders of `book` that are
\* not cancelled.
Committed(book, id) ==
  IF book = <<>> THEN 0
  ELSE (IF Head(book).status # "cancelled" THEN SumQty(Head(book).items, id) ELSE 0)
         + Committed(Tail(book), id)

\* C27: served one at a time, with no product edited or deleted, after any
\* sequence of createOrder, updateStatus, verifyPayment and customer
\* cancellations, for every product the on-hand quantity plus the quantity on
\* the lines of the orders that are not cancelled never exceeds the initial
\* quantity.
C27_NoSequenceOversells ==
  (pc[1] \in {"idle", "done"}) =>
     \A id \in ProductIds :
       products[id].quantity + Committed(orders, id) <= InitProducts[id].quantity

(***************************************************************************)
(* C28, C29: the bulk writes and a status change that lands in between.    *)
(***************************************************************************)
\* Order i changed status after the request of slot 1 arrived.
MovedSinceArrival(i) ==
  /\ i \in 1..Len(pre[1].orders)
  /\ orders[i].status # pre[1].orders[i].status

\* C28: the write of bulkArchive does not look at the status again: once a
\* bulk archive has passed its check, a status change of a target order that
\* lands before the write does not stop the write, and every target ends with
\* isArchived as requested, an order that is by then neither completed nor
\* cancelled included.
C28_BulkArchiveWritesWhateverTheStatus ==
  [][(pc[1] = "ba_write" /\ pc'[1] = "done") =>
       /\ resp'[1] = 200
       /\ \A i \in Targets(1) :
            orders'[i] = [orders[i] EXCEPT !.isArchived = req[1].archive]]_vars

\* C28 witness: the race.  The targets were completed or cancelled when the
\* bulk archive checked them; one has been moved to preparing since, and the
\* write that archives it is about to run.
C28_StatusChangedBeforeWrite ==
  /\ req[1].op = "bulkArchive" /\ pc[1] = "ba_write"
  /\ req[1].archive
  /\ \E i \in Targets(1) :
       /\ pre[1].orders[i].status \in {"completed", "cancelled"}
       /\ ~orders[i].isArchived
       /\ MovedSinceArrival(i)
       /\ orders[i].status = "preparing"

\* C29 (as stated): bulkHideForBuyer decides on the orders as they were when
\* it checked them and writes afterwards: every listed order of the caller
\* that was completed or cancelled when the request arrived is hidden by the
\* write, whatever its status has become in between.
C29_BulkHideWritesWhatItChecked ==
  (req[1].op = "bulkHide" /\ pc[1] = "done" /\ resp[1] = 200) =>
     \A i \in Eligible(1) : orders[i].isHiddenByBuyer

\* C29 (amended): bulkHideForBuyer is one filtered write: an order it hides
\* is the caller's and is completed or cancelled at the moment of the write;
\* a listed order whose status has left completed and cancelled since the
\* request arrived is skipped.
C29_BulkHideFiltersAtTheWrite ==
  [][(pc[1] = "bh_write" /\ pc'[1] = "done") =>
       \A i \in 1..Len(orders) :
         (orders'[i] # orders[i]) =>
            /\ i \in Targets(1)
            /\ orders[i].buyer = req[1].user
            /\ orders[i].status \in {"completed", "cancelled"}
            /\ orders'[i] = [orders[i] EXCEPT !.isHiddenByBuyer = TRUE]]_vars

\* C29 witness: an order that was completed when the bulk hide arrived was
\* moved to preparing before the write, and the write skipped it.
C29_SkippedAfterStatusChange ==
  /\ req[1].op = "bulkHide" /\ pc[1] = "done" /\ resp[1] = 200
  /\ \E i \in Eligible(1) :
       /\ ~pre[1].orders[i].isHiddenByBuyer
       /\ MovedSinceArrival(i)
       /\ orders[i].status = "preparing"
       /\ ~orders[i].isHiddenByBuyer

(***************************************************************************)
(* C30: carts with lines of zero or negative quantity.                     *)
(***************************************************************************)
\* C30: for every cart, lines of zero or negative quantity included, a
\* checkout never leaves the on-hand quantity of a product greater than it
\* was before the request, whether the request succeeds or fails.
C30_CheckoutNeverRaisesStock ==
  (req[1].op = "createOrder" /\ pc[1] = "done") =>
     \A id \in ProductIds :
       products[id].exists => products[id].quantity <= pre[1].products[id].quantity

(***************************************************************************)
(* C31: persistence of the orders of one checkout.                         *)
(***************************************************************************)
\* C31: the orders of a checkout are persisted all or none: if the request
\* is answered with a failure, including when a later seller's order is
\* rejected by validation, no order created by that request exists.
C31_FailedCheckoutLeavesNoOrder ==
  (req[1].op = "createOrder" /\ pc[1] = "done" /\ resp[1] # 201) =>
     orders = pre[1].orders

(***************************************************************************)
(* C32: two concurrent cancellations of one order.                         *)
(***************************************************************************)
\* Both slots have answered 200 to a customer cancellation of the same order,
\* each having arrived before the other wrote anything.
BothCancelled ==
  /\ \A p \in Procs : Answered(p, "cancelOrder") /\ resp[p] = 200
  /\ req[1].oid = req[2].oid
  /\ pre[1] = pre[2]
  /\ pre[1].orders[req[1].oid].status = "pending"

\* C32: when two customer cancellations of the same pending order run
\* concurrently, the line quantities of the order are restored at most once:
\* each product's quantity rises by at most the quantity on the order's
\* lines.
C32_ConcurrentCancelsRestoreOnce ==
  BothCancelled =>
     \A id \in ProductIds :
       products[id].exists =>
         products[id].quantity
           <= pre[1].products[id].quantity + SumQty(Before(1).items, id)

(***************************************************************************)
(* C33: the status and the status history.                                 *)
(***************************************************************************)
\* C33: in every reachable state, under any interleaving of checkouts, status
\* updates, payment verifications, customer cancellations and cascade
\* cancellations, the status of each order is the status of the last entry
\* of its status history.
C33_StatusIsLastHistoryEntry ==
  \A k \in 1..Len(orders) :
    /\ Len(orders[k].statusHistory) > 0
    /\ orders[k].status = orders[k].statusHistory[Len(orders[k].statusHistory)].status

(***************************************************************************)
(* C34: the housekeeping flags and the status.                             *)
(***************************************************************************)
\* C34: in every reachable state an order that is archived or hidden by its
\* buyer is completed or cancelled: no sequence of archive, hide, status
\* update and payment verification leaves a flag on an order in another
\* status.
C34_FlagsOnlyOnTerminalOrders ==
  \A k \in 1..Len(orders) :
    (orders[k].isArchived \/ orders[k].isHiddenByBuyer) =>
       orders[k].status \in {"completed", "cancelled"}

(***************************************************************************)
(* C35: a cancellation concurrent with a checkout.                         *)
(***************************************************************************)
\* Slot c has answered 200 to a customer cancellation and slot o 201 to a
\* checkout, each having arrived before the other wrote anything.
CancelAndCheckoutSucceeded(c, o) ==
  /\ Answered(c, "cancelOrder") /\ resp[c] = 200
  /\ req[o].op = "createOrder" /\ pc[o] = "done" /\ resp[o] = 201
  /\ pre[c] = pre[o]

\* C35: when a customer cancellation that restores r units of a product runs
\* concurrently with a checkout that takes t units of it and both succeed,
\* the product's final quantity is its initial quantity - t + r.
C35_NeitherDecrementNorRestoreLost ==
  \A c, o \in Procs :
    CancelAndCheckoutSucceeded(c, o) =>
      \A id \in ProductIds :
        products[id].exists =>
          products[id].quantity
            = pre[c].products[id].quantity
                - Requested(req[o].cart, id) + SumQty(Before(c).items, id)


(***************************************************************************)
(* C36: through createOrder, updateStatus, verifyPayment, cancelByCustomer *)
(* and the cascade cancellation an order's status is always one of         *)
(* pending, preparing, completed, cancelled (confirmed and ready are never *)
(* reached), so every cancelByCustomer that passed its status check read a *)
(* pending order.                                                          *)
(***************************************************************************)
ReachedStatuses == {"pending", "preparing", "completed", "cancelled"}

InCancel(p) == pc[p] \in {"cc_find", "cc_save", "cc_order"}

C36_OnlyFourStatusesReached ==
  /\ \A i \in 1..Len(orders) :
       /\ orders[i].status \in ReachedStatuses
       /\ \A k \in 1..Len(orders[i].statusHistory) :
            orders[i].statusHistory[k].status \in ReachedStatuses
  /\ \A p \in Procs : InCancel(p) => loc[p].odoc.status = "pending"

\* A request for confirmed or ready was answered, a status update was
\* accepted, and a cancellation passed its status check.
C36_ConfirmedRequestedAndCancelEnabled ==
  \E p, q \in Procs :
    /\ req[p].op = "updateStatus" /\ pc[p] = "done"
    /\ req[p].status \in {"confirmed", "ready"}
    /\ InCancel(q)
    /\ \E i \in 1..Len(orders) : Len(orders[i].statusHistory) > 1


(***************************************************************************)
(* C37: no step of updateStatus or verifyPayment changes any product's     *)
(* quantity, also when updateStatus sets the status to cancelled: a        *)
(* seller-side cancellation does not restore stock.                        *)
(***************************************************************************)
C37_StatusHandlersLeaveStock ==
  [][\A p \in Procs :
       (pc'[p] # pc[p] /\ req'[p].op \in {"updateStatus", "verifyPayment"})
         => products' = products]_vars

\* The seller cancelled a pending order that holds stock of an existing
\* product, no other request ran meanwhile, and the stock is as it was.
C37_SellerCancelledWithoutRestore ==
  \E p \in Procs :
    /\ Answered(p, "updateStatus") /\ req[p].status = "cancelled"
    /\ resp[p] = 200
    /\ Before(p).status = "pending" /\ Now(p).status = "cancelled"
    /\ \E id \in ProductIds :
         products[id].exists /\ SumQty(Before(p).items, id) > 0
    /\ \A q \in Procs \ {p} : pc[q] = "idle"
    /\ products = pre[p].products


(***************************************************************************)
(* C38: createOrder takes the cart lines one at a time in cart order and   *)
(* the availability check of a line sees the decrements of the earlier     *)
(* lines.  The cart of the claim has two lines for one available product,  *)
(* asking a and b (each at least 1) of on-hand quantity s.                 *)
(***************************************************************************)
TwoLinesOneProduct(p) ==
  /\ req[p].op = "createOrder"
  /\ pc[p] = "done"
  /\ Len(req[p].cart) = 2
  /\ req[p].cart[1].productId = req[p].cart[2].productId
  /\ req[p].cart[1].quantity >= 1
  /\ req[p].cart[2].quantity >= 1
  /\ pre[p].products[req[p].cart[1].productId].exists
  /\ pre[p].products[req[p].cart[1].productId].isAvailable

\* C38 (as stated): the checkout succeeds iff a + b <= s, and otherwise
\* fails at the second line with the first line's decrement of a applied.
C38_SucceedsIffSumFitsElseFailsAtSecondLine ==
  TwoLinesOneProduct(1) =>
    LET id == req[1].cart[1].productId
        a == req[1].cart[1].quantity
        b == req[1].cart[2].quantity
        s == pre[1].products[id].quantity
    IN /\ (resp[1] = 201) <=> (a + b <= s)
       /\ (a + b > s) =>
            /\ resp[1] = 400
            /\ loc[1].i = 2
            /\ products[id].quantity = s - a

\* C38 (amended): when a > s the checkout fails at the first line and the
\* quantity stays s; when a <= s < a + b it fails at the second line with
\* the quantity at s - a; when a + b <= s both lines are taken, the quantity
\* is s - a - b, and the answer is 201 when the orders pass the Order schema
\* and 500 when they do not.
C38_SecondLineSeesFirstDecrement ==
  TwoLinesOneProduct(1) =>
    LET id == req[1].cart[1].productId
        a == req[1].cart[1].quantity
        b == req[1].cart[2].quantity
        s == pre[1].products[id].quantity
    IN IF a > s
       THEN resp[1] = 400 /\ loc[1].i = 1 /\ products[id].quantity = s
       ELSE IF a + b > s
       THEN resp[1] = 400 /\ loc[1].i = 2 /\ products[id].quantity = s - a
       ELSE /\ products[id].quantity = s - a - b
            /\ resp[1] = IF CartValid(1) THEN 201 ELSE 500

\* C38 witness: both lines were checked; the second did not fit into what
\* the first had left.
C38_SecondLineDidNotFit ==
  /\ TwoLinesOneProduct(1)
  /\ req[1].cart[1].quantity = 1 /\ req[1].cart[2].quantity = 2
  /\ pre[1].products[req[1].cart[1].productId].quantity = 2
  /\ resp[1] = 400
  /\ products[req[1].cart[1].productId].quantity = 1


(***************************************************************************)
(* C39: while processing a cart line, createOrder emits a low-stock event  *)
(* to the product's seller exactly when the quantity q after the decrement *)
(* satisfies 0 < q <= lowStockThreshold; no event is emitted when the      *)
(* quantity reaches zero or stays above the threshold.                     *)
(***************************************************************************)
LowStockEvents(notices) == {n \in notices : n.kind = "low_stock"}

C39_LowStockEventExactlyWithinThreshold ==
  [][(pc[1] = "co_save" /\ pc'[1] \in {"co_find", "co_create"}) =>
       LET line == req[1].cart[loc[1].i]
           id == line.productId
           q == products[id].quantity - line.quantity
           event == Notice("low_stock", products[id].seller, id)
       IN /\ products'[id].quantity = q
          /\ LowStockEvents(sent'[1]) =
               LowStockEvents(sent[1])
                 \cup (IF 0 < q /\ q <= ThresholdOf(id) THEN {event} ELSE {})]_vars

\* C39 witness: one checkout took a product with threshold 1 from 2 to 1 and
\* then to 0; the seller has the event of the first line, and the product is
\* sold out.
C39_WarnedAtLastUnitNotAtZero ==
  /\ req[1].op = "createOrder" /\ pc[1] = "done" /\ resp[1] = 201
  /\ req[1].cart = <<Line("pA", 1), Line("pA", 1)>>
  /\ pre[1].products["pA"].quantity = 2
  /\ products["pA"].quantity = 0
  /\ LowStockEvents(sent[1]) = {Notice("low_stock", "s1", "pA")}

====
